---- MODULE Spec2Model ----
(***************************************************************************)
(* Model of the bump allocator of src/src/allocator/bump.rs together with  *)
(* align_up of src/src/allocator.rs, of the kernel's boot sequence, of the *)
(* lock around the allocator, of the keyboard's scancode queue, of the     *)
(* linked-list and fixed-size-block allocators, of the VGA writer and of   *)
(* the task executors and of the boot frame allocator.                     *)
(*                                                                         *)
(* The allocator's fields are machine words (usize).  The model keeps the  *)
(* word width: every addition and subtraction of the code is computed      *)
(* modulo 2^USIZE_BITS and reports whether it overflowed.  What an         *)
(* overflow does depends on the build: with overflow checks (debug) the    *)
(* kernel panics, without them (release) the value wraps.  Both builds are *)
(* modelled; overflow_checks is chosen in the initial state.               *)
(*                                                                         *)
(* Three specifications share the actions alloc and dealloc:               *)
(*   Spec         heaps placed like the kernel's heap (HEAP_START +        *)
(*                HEAP_SIZE far below the top of the address space);       *)
(*   AnyHeapSpec  any heap region, also one at the top of the address      *)
(*                space, where the rounding of align_up can leave the word;*)
(*   ScenarioSpec a 4096-byte heap with requests of 100 and 4000 bytes.    *)
(* The other specifications:                                               *)
(*   FreeSpec        the calls of Spec and double frees;                   *)
(*   UninitSpec      the allocator from new(), with init as a call;        *)
(*   BootSpec        kernel_main, init_heap and main();                    *)
(*   LockSpec        two contexts calling alloc and dealloc through the    *)
(*                   spin lock;                                            *)
(*   KbdSpec         add_scancode in the interrupt handler against the     *)
(*                   task that polls the scancode stream;                  *)
(*   LinkedListSpec  the linked-list allocator;                            *)
(*   LLScenarioSpec  the linked-list allocator on a 64-byte heap;          *)
(*   FsbSpec         the fixed-size-block allocator over the linked list;  *)
(*   VgaSpec         a line written to the VGA text buffer;                *)
(*   ExecSpec        Executor: spawn, run, and wakes by interrupts;        *)
(*   SpawnSpec       Task::new and Executor::spawn before run;             *)
(*   SimpleSpec      SimpleExecutor: spawn and run;                        *)
(*   WriterSpec      any calls of the VGA writer's operations;             *)
(*   FrameSpec       BootInfoFrameAllocator over a map of regions.         *)
(***************************************************************************)
EXTENDS Integers, Sequences, FiniteSets, TLC

\* ------------------------------------------------------------------ bounds

\* Width of usize in the model (64 in the kernel).
USIZE_BITS == 16

\* At most this many allocations are outstanding at a time.
MaxLive == 2

\* At most this many deallocs that match no live allocation.
MaxStale == 1

\* No alloc is made once this many allocs have committed and returned address 0.
MaxLeaked == 1

\* ------------------------------------------------------------ machine words

RECURSIVE Pow2(_)
Pow2(n) == IF n = 0 THEN 1 ELSE 2 * Pow2(n - 1)

WORD == Pow2(USIZE_BITS)

USIZE_MAX == WORD - 1

ISIZE_MAX == Pow2(USIZE_BITS - 1) - 1

\* core::ptr::null_mut() as an address.
NULL == 0

RECURSIVE BitAndN(_, _, _)
BitAndN(x, y, n) ==
    IF n = 0 THEN 0
    ELSE (x % 2) * (y % 2) + 2 * BitAndN(x \div 2, y \div 2, n - 1)

\* x & y on usize.
BitAnd(x, y) == BitAndN(x, y, USIZE_BITS)

\* !x on usize.
BitNot(x) == USIZE_MAX - x

\* a + b on usize: the wrapped value, and whether the sum left the word.
add(a, b) == [val |-> (a + b) % WORD, ovf |-> a + b > USIZE_MAX]

\* a - b on usize: the wrapped value, and whether the difference left the word.
sub(a, b) == [val |-> (a - b + WORD) % WORD, ovf |-> a < b]

\* usize::checked_add: None on overflow, never a wrapped value.
checked_add(a, b) == [some |-> a + b <= USIZE_MAX, val |-> (a + b) % WORD]

\* ------------------------------------------------------------------ layout

\* The least multiple of align that is >= n, as an unbounded integer.
RoundUp(n, align) == ((n + align - 1) \div align) * align

PowersOfTwo == {Pow2(k) : k \in 0..(USIZE_BITS - 1)}

\* core::alloc::Layout: align is a power of two and size, rounded up to align,
\* does not exceed isize::MAX.
LayoutValid(size, align) ==
    /\ align \in PowersOfTwo
    /\ RoundUp(size, align) <= ISIZE_MAX

\* ------------------------------------------------------------------- state

VARIABLES
    heap_start,       \* BumpAllocator.heap_start
    heap_end,         \* BumpAllocator.heap_end
    next,             \* BumpAllocator.next
    allocations,      \* BumpAllocator.allocations
    init_calls,       \* history: how many times the allocator's init has run
    overflow_checks,  \* the build: TRUE panics on overflow, FALSE wraps
    panicked,         \* the kernel has panicked; nothing runs afterwards
    live,             \* history: allocations handed out and not yet given back
    leaked,           \* history: allocs that committed but returned address 0
    stale,            \* history: deallocs that matched no live allocation
    last,             \* history: the most recent call, its arguments and result
    scen,             \* history: progress through alloc 100, alloc 4000,
                      \*          dealloc 100, alloc 4000 from a fresh heap
    kpc,              \* kernel_main: the statement it is at
    memory_map,       \* BootInfoFrameAllocator.memory_map: number of usable frames
    frame_next,       \* BootInfoFrameAllocator.next
    tables_missing,   \* page tables map_to has to create to reach the heap's pages
    page_table,       \* the mapper: page |-> [frame, flags] for the mapped pages
    page,             \* init_heap: the page the loop is at
    heap_result,      \* what init_heap returned, "running" before it returns
    init_heap_calls,  \* history: how many times init_heap was called
    heap_allocs,      \* history: heap allocations made by main()
    memory_regions,   \* the MemoryMap region by region: frame range and type
    frames,           \* history: what the calls of allocate_frame returned
    holder,           \* Locked.inner: the context holding the lock, or "none"
    cpc,              \* each context's position in its alloc or dealloc call
    call,             \* each context's call: its arguments and locals
    expected,         \* history: each call applied in one step when it took the lock
    calls,            \* history: calls started
    owned,            \* history: allocations made and not yet handed to dealloc
    preemptive,       \* one CPU with interrupts, or freely interleaved contexts
    interrupts_enabled, \* the CPU's interrupt flag
    writer_lock,      \* WRITER_GLOBAL: the context holding the lock, or "none"
    saved_if,         \* without_interrupts: the flag each context found
    scancode_queue,   \* SCANCODE_QUEUE: Uninit, or the scancodes queued, oldest first
    waker,            \* WAKER: the waker stored in the AtomicWaker, or "none"
    strong_count,     \* strong count of the task's Arc<TaskWaker>, 0 before it exists
    task_queue,       \* Executor.task_queue: the number of task ids queued
    executor,         \* which executor runs the task: "simple" or "executor"
    kbd_pc,           \* where the task and the interrupt handler are
    irqs,             \* history: keyboard interrupts taken
    irq_heap_calls,   \* history: entries into the heap allocator by the handler
    paths,            \* history: the paths add_scancode has taken
    kpanic,           \* the handler has panicked
    accepted,         \* history: the scancodes add_scancode pushed, in push order
    yielded,          \* history: the scancodes poll_next returned, in order
    woken,            \* history: WAKER.wake() ran since the last WAKER.register
    ll_heap,          \* linked list: the heap given to init, [start, size]
    free_list,        \* linked list: the free nodes [start, size], head first
    ll_live,          \* history: linked-list allocations not yet given back
    ll_last,          \* history: the last call of the linked-list allocator
    ll_trip,          \* history: progress through alloc, dealloc, alloc again
    pre_free,         \* history: free_list before the last call
    ll_scen,          \* history: progress through alloc 16, alloc 16, dealloc of
                      \*          the first, alloc 8 from a fresh heap
    list_heads,       \* fixed-size block: per class, the free blocks, head first
    fsb_live,         \* history: fixed-size-block allocations not yet given back,
                      \*          each with the class its alloc selected
    fsb_last,         \* history: the last call of the fixed-size-block allocator;
                      \*          from is the class the alloc of the block selected
    fsb_prev,         \* history: the call before the last one
    column_position,  \* Writer.column_position
    buffer,           \* Writer.buffer.chars: the ascii_character of each cell,
                      \*   buffer[row + 1][col + 1]
    vga_text,         \* the string s of the test
    vga_done,         \* how many of the pieces "\n", s, "\n" have been written
    tasks,            \* Executor.tasks: the ids of the tasks in the map
    waker_cache,      \* Executor.waker_cache: the ids with a cached waker
    epc,              \* Executor: the statement main(), run or sleep_if_idle is at
    task_id,          \* run_ready_tasks: the id popped last
    registered,       \* the ids whose waker an interrupt source holds a clone of
    irq_pending,      \* an interrupt is raised and not yet delivered
    done,             \* history: the ids whose poll has returned Ready
    skipped,          \* history: the ids popped and skipped
    NEXT_ID,          \* TaskId::new: the static counter of task ids
    polls_left        \* each task's future: the polls it needs to become Ready,
                      \*   or Never

\* The fields of the bump allocator and the history of its calls.
bumpVars == <<heap_start, heap_end, next, allocations, overflow_checks,
              panicked, live, leaked, stale, last, scen>>

\* The boot sequence.
bootVars == <<kpc, memory_map, frame_next, tables_missing, page_table, page,
              heap_result, init_heap_calls, heap_allocs, memory_regions, frames>>

\* What the bump allocator's calls leave alone.
\* The lock, and the contexts calling through it.
lockVars == <<holder, cpc, call, expected, calls, owned, preemptive>>

\* The keyboard's scancode queue, its producer and its consumer.
kbdVars == <<interrupts_enabled, writer_lock, saved_if, scancode_queue, waker,
             strong_count, task_queue, executor, kbd_pc, irqs, irq_heap_calls,
             paths, kpanic, accepted, yielded, woken>>

\* The linked-list allocator.
llVars == <<ll_heap, free_list, ll_live, ll_last, ll_trip, pre_free, ll_scen>>

\* The fixed-size-block allocator; its fallback allocator is the linked list.
fsbVars == <<list_heads, fsb_live, fsb_last, fsb_prev>>

\* The parts of the kernel modelled on their own.
\* The VGA writer and the test that writes to it.
vgaVars == <<column_position, buffer, vga_text, vga_done>>

\* Executor; its task_queue and the CPU's interrupt flag are the variables
\* task_queue and interrupts_enabled.
execVars == <<tasks, waker_cache, epc, task_id, registered, irq_pending, done, skipped,
              NEXT_ID, polls_left>>

moreVars == <<fsbVars, vgaVars, execVars>>

envVars == <<bootVars, lockVars, kbdVars, llVars, moreVars>>

vars == <<bumpVars, init_calls, bootVars, lockVars, kbdVars, llVars, moreVars>>

\* ------------------------------------------------------------- align_up

\* align_up without the rounding.
align_up_none(addr, align) == [val |-> addr, ovf |-> FALSE]

\* (addr + align - 1) & !(align - 1).  ovf: one of the three arithmetic
\* steps overflowed.
align_up(addr, align) ==
    LET sum  == add(addr, align)
        dec  == sub(sum.val, 1)
        mask == sub(align, 1)
    IN  [val |-> BitAnd(dec.val, BitNot(mask.val)),
         ovf |-> sum.ovf \/ dec.ovf \/ mask.ovf]

\* ------------------------------------------------------------------ alloc

\* alloc without the bounds check.
out_of_memory_never(alloc_end) == FALSE

\* The bounds check off by one: an allocation ending at heap_end is refused.
out_of_memory_ge(alloc_end) == alloc_end >= heap_end

\* alloc_end > bump.heap_end
out_of_memory(alloc_end) == alloc_end > heap_end

\* The counter incremented twice.
count_up_twice(n) == add(n, 2)

\* bump.allocations += 1
count_up(n) == add(n, 1)

\* What alloc does in the current state:
\*   path "panic"  : an unchecked operation overflowed in a checked build
\*   path "none"   : checked_add returned None, null is returned
\*   path "oom"    : alloc_end > heap_end, null is returned
\*   path "commit" : next and allocations are updated, alloc_start is returned
\* ovf: rounding next up to align, or adding size, leaves the word.
alloc_result(size, align) ==
    LET a   == align_up(next, align)
        e   == checked_add(a.val, size)
        cnt == count_up(allocations)
        ovf == RoundUp(next, align) > USIZE_MAX \/ ~e.some
    IN  IF a.ovf /\ overflow_checks
          THEN [path |-> "panic", ret |-> NULL, next |-> next,
                allocations |-> allocations, ovf |-> ovf]
        ELSE IF ~e.some
          THEN [path |-> "none", ret |-> NULL, next |-> next,
                allocations |-> allocations, ovf |-> ovf]
        ELSE IF out_of_memory(e.val)
          THEN [path |-> "oom", ret |-> NULL, next |-> next,
                allocations |-> allocations, ovf |-> ovf]
        ELSE IF cnt.ovf /\ overflow_checks
          THEN [path |-> "panic", ret |-> NULL, next |-> e.val,
                allocations |-> allocations, ovf |-> ovf]
        ELSE [path |-> "commit", ret |-> a.val, next |-> e.val,
              allocations |-> cnt.val, ovf |-> ovf]

\* The scenario monitor: 0 fresh, 1..4 the four calls of the scenario made in
\* order with nothing in between, 5 any other history.
scen_alloc(size) ==
    IF scen = 0 /\ size = 100 THEN 1
    ELSE IF scen = 1 /\ size = 4000 THEN 2
    ELSE IF scen = 3 /\ size = 4000 THEN 4
    ELSE 5

scen_dealloc(size, matched) ==
    IF scen = 2 /\ size = 100 /\ matched THEN 3 ELSE 5

alloc(size, align) ==
    /\ ~panicked
    /\ LayoutValid(size, align)
    /\ Len(live) + leaked < MaxLive
    /\ leaked < MaxLeaked
    /\ \E r \in {alloc_result(size, align)} :
           /\ next' = r.next
           /\ allocations' = r.allocations
           /\ panicked' = (r.path = "panic")
           /\ live' = IF r.path = "commit" /\ r.ret # NULL
                        THEN Append(live, [ptr |-> r.ret, size |-> size, align |-> align])
                        ELSE live
           /\ leaked' = IF r.path = "commit" /\ r.ret = NULL THEN leaked + 1 ELSE leaked
           /\ last' = [op |-> "alloc", path |-> r.path, ptr |-> r.ret,
                       size |-> size, align |-> align, ovf |-> r.ovf,
                       pre_next |-> next, pre_count |-> allocations]
    /\ scen' = scen_alloc(size)
    /\ UNCHANGED <<heap_start, heap_end, init_calls, overflow_checks, stale>>
    /\ UNCHANGED envVars

\* ----------------------------------------------------------------- dealloc

\* dealloc without the decrement.
count_down_keep(n) == [val |-> n, ovf |-> FALSE]

\* bump.allocations -= 1
count_down(n) == sub(n, 1)

\* dealloc resetting next on every call.
next_after_dealloc_always(count) == heap_start

\* dealloc never resetting next.
next_after_dealloc_never(count) == next

\* if bump.allocations == 0 { bump.next = bump.heap_start }
next_after_dealloc(count) == IF count = 0 THEN heap_start ELSE next

\* The index of the first live allocation with this pointer and layout, 0 if none.
LiveIndex(ptr, size, align) ==
    LET hits == {i \in 1..Len(live) :
                   live[i] = [ptr |-> ptr, size |-> size, align |-> align]}
    IN  IF hits = {} THEN 0 ELSE CHOOSE i \in hits : \A j \in hits : i <= j

Remove(s, i) == [k \in 1..(Len(s) - 1) |-> IF k < i THEN s[k] ELSE s[k + 1]]

\* dealloc ignores _ptr and _layout; they only drive the history variables.
\* last.matched: the arguments were those of a live allocation.
dealloc(ptr, size, align) ==
    /\ ~panicked
    /\ LET i == LiveIndex(ptr, size, align)
           c == count_down(allocations)
       IN  /\ i = 0 => stale < MaxStale
           /\ IF c.ovf /\ overflow_checks
                THEN /\ panicked' = TRUE
                     /\ UNCHANGED <<next, allocations>>
                     /\ last' = [op |-> "dealloc", path |-> "panic", ptr |-> ptr,
                                 size |-> size, align |-> align, ovf |-> TRUE,
                                 pre_next |-> next, pre_count |-> allocations,
                                 matched |-> i # 0]
                ELSE /\ allocations' = c.val
                     /\ next' = next_after_dealloc(c.val)
                     /\ last' = [op |-> "dealloc", path |-> "done", ptr |-> ptr,
                                 size |-> size, align |-> align, ovf |-> c.ovf,
                                 pre_next |-> next, pre_count |-> allocations,
                                 matched |-> i # 0]
                     /\ UNCHANGED panicked
           /\ live' = IF i = 0 THEN live ELSE Remove(live, i)
           /\ stale' = IF i = 0 THEN stale + 1 ELSE stale
           /\ scen' = scen_dealloc(size, i # 0)
    /\ UNCHANGED <<heap_start, heap_end, init_calls, overflow_checks, leaked>>
    /\ UNCHANGED envVars

\* -------------------------------------------------------------------- init

\* BumpAllocator::new() followed by init(start, size).
init(start, size) ==
    /\ heap_start = start
    /\ heap_end = add(start, size).val
    /\ next = start
    /\ allocations = 0
    /\ init_calls = 1

\* OnceCell::uninit(): SCANCODE_QUEUE before ScancodeStream::new.
Uninit == <<-1>>

\* The allocator is used on its own: the boot sequence is not running.
BootIdle ==
    /\ kpc = "off"
    /\ memory_map = 0
    /\ frame_next = 0
    /\ tables_missing = 0
    /\ page_table = <<>>
    /\ page = 0
    /\ heap_result = "running"
    /\ init_heap_calls = 0
    /\ heap_allocs = 0
    /\ memory_regions = <<>>
    /\ frames = <<>>

\* No context calls through the lock.
LockIdle ==
    /\ holder = "none"
    /\ cpc = <<>>
    /\ call = <<>>
    /\ expected = <<>>
    /\ calls = 0
    /\ owned = 0
    /\ preemptive = FALSE

\* The keyboard is left out.
KbdIdle ==
    /\ interrupts_enabled = FALSE
    /\ writer_lock = "none"
    /\ saved_if = <<>>
    /\ scancode_queue = Uninit
    /\ waker = "none"
    /\ strong_count = 0
    /\ task_queue = 0
    /\ executor = "none"
    /\ kbd_pc = <<>>
    /\ irqs = 0
    /\ irq_heap_calls = 0
    /\ paths = {}
    /\ kpanic = FALSE
    /\ accepted = <<>>
    /\ yielded = <<>>
    /\ woken = FALSE

\* The linked-list allocator is not compiled in.
LinkedListIdle ==
    /\ ll_heap = <<>>
    /\ free_list = <<>>
    /\ ll_live = <<>>
    /\ ll_last = <<>>
    /\ ll_trip = <<>>
    /\ pre_free = <<>>
    /\ ll_scen = <<>>

\* The fixed-size-block allocator is not compiled in.
FsbIdle ==
    /\ list_heads = <<>>
    /\ fsb_live = <<>>
    /\ fsb_last = <<>>
    /\ fsb_prev = <<>>

\* Nothing is written to the screen.
VgaIdle ==
    /\ column_position = 0
    /\ buffer = <<>>
    /\ vga_text = <<>>
    /\ vga_done = 0

\* Executor is not modelled task by task.
ExecIdle ==
    /\ tasks = {}
    /\ waker_cache = {}
    /\ epc = "off"
    /\ task_id = -1
    /\ registered = {}
    /\ irq_pending = FALSE
    /\ done = {}
    /\ skipped = {}
    /\ NEXT_ID = 0
    /\ polls_left = <<>>

MoreIdle == FsbIdle /\ VgaIdle /\ ExecIdle

EnvIdle == BootIdle /\ LockIdle /\ KbdIdle /\ LinkedListIdle /\ MoreIdle

\* Either build, and no call made yet.
NoCalls ==
    /\ overflow_checks \in BOOLEAN
    /\ panicked = FALSE
    /\ live = <<>>
    /\ leaked = 0
    /\ stale = 0
    /\ scen = 0
    /\ last = [op |-> "init", path |-> "done", ptr |-> NULL, size |-> 0, align |-> 1,
               ovf |-> FALSE, pre_next |-> 0, pre_count |-> 0]

Fresh ==
    /\ EnvIdle
    /\ NoCalls

\* The largest alignment a Layout can carry.
MaxAlign == Pow2(USIZE_BITS - 1)

\* The heap lies where rounding next up to any Layout alignment stays inside
\* the word, as HEAP_START + HEAP_SIZE does in the kernel.
NoRoundingWrap(start, size) == start + size + MaxAlign <= USIZE_MAX

\* Heap regions placed like the kernel's heap, as <<heap_start, heap_size>>:
\* one with an aligned start, one with an odd start and an odd size.
Heaps == {<<17472, 16>>, <<17475, 11>>}

Sizes == {0, 3, 8, ISIZE_MAX}

Aligns == {1, 8, MaxAlign}

\* Pointers handed to dealloc that may match no live allocation.
StalePtrs == {heap_start}

Init ==
    /\ \E h \in Heaps :
         /\ NoRoundingWrap(h[1], h[2])
         /\ init(h[1], h[2])
    /\ Fresh

Next ==
    \/ \E size \in Sizes, align \in Aligns : alloc(size, align)
    \/ \E i \in 1..Len(live) : dealloc(live[i].ptr, live[i].size, live[i].align)
    \/ \E ptr \in StalePtrs : dealloc(ptr, 1, 1)

Spec == Init /\ [][Next]_vars

\* ---------------------------------------------------- any heap region

\* Heap regions at the top of the address space: one ending at the last
\* address, one a few bytes below it.
HighHeaps == {<<WORD - 16, 15>>, <<WORD - 13, 9>>}

\* init on any region [start, start + size) that lies inside the address space.
AnyHeapInit ==
    /\ \E h \in Heaps \cup HighHeaps :
         /\ h[1] + h[2] <= USIZE_MAX
         /\ init(h[1], h[2])
    /\ Fresh

AnyHeapSpec == AnyHeapInit /\ [][Next]_vars

\* ------------------------------------------------- the 4096-byte heap

\* A page-aligned 4096-byte heap, as <<heap_start, heap_size>>.
ScenarioHeaps == {<<16384, 4096>>}

ScenarioSizes == {100, 4000}

ScenarioAligns == {1}

ScenarioInit ==
    /\ \E h \in ScenarioHeaps :
         /\ NoRoundingWrap(h[1], h[2])
         /\ init(h[1], h[2])
    /\ Fresh

ScenarioNext ==
    \/ \E size \in ScenarioSizes, align \in ScenarioAligns : alloc(size, align)
    \/ \E i \in 1..Len(live) : dealloc(live[i].ptr, live[i].size, live[i].align)
    \/ \E ptr \in StalePtrs : dealloc(ptr, 1, 1)

ScenarioSpec == ScenarioInit /\ [][ScenarioNext]_vars

\* ------------------------------------------------------- invalid frees

\* The calls of Next, and a dealloc called again with the pointer and layout
\* of the dealloc before it.
FreeNext ==
    \/ \E size \in {0, 3, 8}, align \in {1, 8} : alloc(size, align)
    \/ \E i \in 1..Len(live) : dealloc(live[i].ptr, live[i].size, live[i].align)
    \/ \E ptr \in StalePtrs : dealloc(ptr, 1, 1)
    \/ last.op = "dealloc" /\ dealloc(last.ptr, last.size, last.align)

FreeSpec == Init /\ [][FreeNext]_vars

\* ------------------------------------------- the allocator before init

\* BumpAllocator::new(): every field is zero and init has not run.
new ==
    /\ heap_start = 0
    /\ heap_end = 0
    /\ next = 0
    /\ allocations = 0
    /\ init_calls = 0

\* BumpAllocator::init(heap_start, heap_size), called once as its safety
\* contract demands.  It sets the three bounds and leaves allocations alone.
init_step(start, size) ==
    /\ ~panicked
    /\ init_calls = 0
    /\ heap_start' = start
    /\ heap_end' = add(start, size).val
    /\ next' = start
    /\ init_calls' = init_calls + 1
    /\ last' = [op |-> "init", path |-> "done", ptr |-> NULL, size |-> 0, align |-> 1,
                ovf |-> FALSE, pre_next |-> next, pre_count |-> allocations]
    /\ scen' = 5
    /\ UNCHANGED <<allocations, overflow_checks, panicked, live, leaked, stale>>
    /\ UNCHANGED envVars

\* The region init is called with, as <<heap_start, heap_size>>.
UninitHeaps == {<<17472, 16>>}

UninitInit ==
    /\ new
    /\ Fresh

UninitNext ==
    \/ \E size \in Sizes, align \in Aligns : alloc(size, align)
    \/ \E i \in 1..Len(live) : dealloc(live[i].ptr, live[i].size, live[i].align)
    \/ \E ptr \in StalePtrs : dealloc(ptr, 1, 1)
    \/ \E h \in UninitHeaps : init_step(h[1], h[2])

UninitSpec == UninitInit /\ [][UninitNext]_vars

\* ------------------------------------------------------------ kernel boot

\* HEAP_START is 0x_4444_4444_0000; this is its low 32 bits (0x4444_0000).
\* Bits 32..47 are the same for every address of the heap and take no part in
\* the page arithmetic below.
HEAP_START == 1145307136

HEAP_SIZE == 100 * 1024

\* Size4KiB::SIZE
PAGE_SIZE == 4096

\* At most this many heap allocations of main() are followed.
MaxMainAllocs == 2

\* Option::None of allocate_frame.
NoFrame == -1

\* A frame the bootloader mapped before the kernel ran.
BootFrame == -2

\* Page::containing_address: the page number of the page holding addr.
containing_address(addr) == addr \div PAGE_SIZE

\* The page range with its last page left out.
page_range_exclusive ==
    [start |-> containing_address(HEAP_START),
     end   |-> containing_address(HEAP_START + HEAP_SIZE - 1) - 1]

\* Page::range_inclusive(heap_start_page, heap_end_page)
page_range ==
    [start |-> containing_address(HEAP_START),
     end   |-> containing_address(HEAP_START + HEAP_SIZE - 1)]

\* PageTableFlags::PRESENT | PageTableFlags::WRITABLE
flags == {"PRESENT", "WRITABLE"}

\* BootInfoFrameAllocator::allocate_frame with self.next = nxt: the nxt-th
\* usable frame, if there is one; next is incremented either way.
allocate_frame(nxt) ==
    [frame |-> IF nxt < memory_map THEN nxt ELSE NoFrame, next |-> nxt + 1]

\* Mapper::map_to(page, frame, flags, frame_allocator) with the frame
\* allocator at nxt: it creates the missing page tables out of fresh frames,
\* then fills the page's entry, which must be unused.
map_to(pg, frame, nxt) ==
    LET avail == IF nxt < memory_map THEN memory_map - nxt ELSE 0
    IN  IF tables_missing > avail
          THEN [result |-> "FrameAllocationFailed", next |-> nxt + avail + 1,
                tables_missing |-> tables_missing - avail, page_table |-> page_table]
        ELSE IF pg \in DOMAIN page_table
          THEN [result |-> "PageAlreadyMapped", next |-> nxt + tables_missing,
                tables_missing |-> 0, page_table |-> page_table]
        ELSE [result |-> "Ok", next |-> nxt + tables_missing, tables_missing |-> 0,
              page_table |-> [q \in DOMAIN page_table \cup {pg} |->
                                IF q = pg THEN [frame |-> frame, flags |-> flags]
                                ELSE page_table[q]]]

\* kernel_main up to the call of init_heap: the screen, the interrupt tables,
\* the mapper and the frame allocator are set up; init_heap computes its page
\* range.
kernel_main ==
    /\ kpc = "kernel_main"
    /\ frame_next' = 0
    /\ init_heap_calls' = init_heap_calls + 1
    /\ page' = page_range.start
    /\ kpc' = "init_heap"
    /\ UNCHANGED <<memory_map, tables_missing, page_table, heap_result, heap_allocs>>
    /\ UNCHANGED <<bumpVars, init_calls, lockVars, kbdVars, llVars, moreVars,
                   memory_regions, frames>>

\* One iteration of init_heap's loop: a frame for the page, then the mapping.
\* Either failure returns the error from init_heap at once.
init_heap_page ==
    /\ kpc = "init_heap"
    /\ page <= page_range.end
    /\ \E f \in {allocate_frame(frame_next)} :
         IF f.frame = NoFrame
           THEN /\ heap_result' = "FrameAllocationFailed"
                /\ frame_next' = f.next
                /\ kpc' = "expect"
                /\ UNCHANGED <<tables_missing, page_table, page>>
           ELSE \E m \in {map_to(page, f.frame, f.next)} :
                  /\ frame_next' = m.next
                  /\ tables_missing' = m.tables_missing
                  /\ page_table' = m.page_table
                  /\ IF m.result = "Ok"
                       THEN /\ page' = page + 1
                            /\ UNCHANGED <<heap_result, kpc>>
                       ELSE /\ heap_result' = m.result
                            /\ kpc' = "expect"
                            /\ UNCHANGED page
    /\ UNCHANGED <<memory_map, init_heap_calls, heap_allocs>>
    /\ UNCHANGED <<bumpVars, init_calls, lockVars, kbdVars, llVars, moreVars,
                   memory_regions, frames>>

\* After the loop: ALLOCATOR.lock().init(HEAP_START, HEAP_SIZE); Ok(())
init_heap_init ==
    /\ kpc = "init_heap"
    /\ page > page_range.end
    /\ init_calls' = init_calls + 1
    /\ heap_result' = "Ok"
    /\ kpc' = "expect"
    /\ UNCHANGED <<memory_map, frame_next, tables_missing, page_table, page,
                   init_heap_calls, heap_allocs>>
    /\ UNCHANGED <<bumpVars, lockVars, kbdVars, llVars, moreVars, memory_regions, frames>>

\* kernel_main going on to main() whatever init_heap returned.
expect_ignore(result) == "main"

\* .expect("heap initialization failed"): Ok goes on to main(), Err panics.
expect(result) == IF result = "Ok" THEN "main" ELSE "panic"

kernel_main_expect ==
    /\ kpc = "expect"
    /\ kpc' = expect(heap_result)
    /\ UNCHANGED <<memory_map, frame_next, tables_missing, page_table, page,
                   heap_result, init_heap_calls, heap_allocs>>
    /\ UNCHANGED <<bumpVars, init_calls, lockVars, kbdVars, llVars, moreVars,
                   memory_regions, frames>>

\* main(): Task::new boxes each future, spawn grows the task queue.  run()
\* never returns, as print_keypresses is never Ready.
main ==
    /\ kpc = "main"
    /\ heap_allocs < MaxMainAllocs
    /\ heap_allocs' = heap_allocs + 1
    /\ UNCHANGED <<kpc, memory_map, frame_next, tables_missing, page_table, page,
                   heap_result, init_heap_calls>>
    /\ UNCHANGED <<bumpVars, init_calls, lockVars, kbdVars, llVars, moreVars,
                   memory_regions, frames>>

\* The panic handler: println!("{}", info); hlt_loop()
panic ==
    /\ kpc = "panic"
    /\ kpc' = "hlt_loop"
    /\ UNCHANGED <<memory_map, frame_next, tables_missing, page_table, page,
                   heap_result, init_heap_calls, heap_allocs>>
    /\ UNCHANGED <<bumpVars, init_calls, lockVars, kbdVars, llVars, moreVars,
                   memory_regions, frames>>

\* loop { hlt() }
hlt_loop ==
    /\ kpc = "hlt_loop"
    /\ UNCHANGED vars

\* The pages of [HEAP_START, HEAP_START + HEAP_SIZE).
HeapPages ==
    {p \in (HEAP_START \div PAGE_SIZE - 1)..((HEAP_START + HEAP_SIZE) \div PAGE_SIZE + 1) :
        p * PAGE_SIZE < HEAP_START + HEAP_SIZE /\ (p + 1) * PAGE_SIZE > HEAP_START}

\* Usable frames in the bootloader's memory map.
UsableFrames == {0, 1, 13, 25, 27, 28, 40}

\* Page tables missing on the way to the heap's first page (P3, P2, P1).
TablesMissing == {0, 2, 3}

\* Heap pages that are mapped before init_heap runs: none, as the bootloader
\* leaves them, or one in the middle of the range.
Premapped == {{}, {page_range.start + 7}}

BootInit ==
    /\ new
    /\ NoCalls
    /\ kpc = "kernel_main"
    /\ memory_map \in UsableFrames
    /\ frame_next = 0
    /\ tables_missing \in TablesMissing
    /\ \E pre \in Premapped :
         page_table = [q \in pre |-> [frame |-> BootFrame, flags |-> {"PRESENT"}]]
    /\ page = 0
    /\ heap_result = "running"
    /\ init_heap_calls = 0
    /\ heap_allocs = 0
    /\ memory_regions = <<>>
    /\ frames = <<>>
    /\ LockIdle
    /\ KbdIdle
    /\ LinkedListIdle
    /\ MoreIdle

BootNext ==
    \/ kernel_main
    \/ init_heap_page
    \/ init_heap_init
    \/ kernel_main_expect
    \/ main
    \/ panic
    \/ hlt_loop

BootSpec == BootInit /\ [][BootNext]_vars

\* ------------------------------------------------- BootInfoFrameAllocator

\* At most this many calls of allocate_frame are followed.
MaxFrameCalls == 8

\* A region of the memory map holds at most this many frames.
MaxRegionFrames == 2

\* The frames of every region, whatever its type.
RECURSIVE usable_frames_all(_)
usable_frames_all(regions) ==
    IF regions = <<>> THEN <<>>
    ELSE LET r == Head(regions)
         IN  [i \in 1..(r.end_frame_number - r.start_frame_number) |->
                containing_address(r.start_frame_number * PAGE_SIZE
                                     + (i - 1) * PAGE_SIZE)]
               \o usable_frames_all(Tail(regions))

\* usable_frames: the regions of type Usable, each as its address range
\* start_addr()..end_addr() stepped by 4096, each address as the frame
\* containing it, region after region.
RECURSIVE usable_frames(_)
usable_frames(regions) ==
    IF regions = <<>> THEN <<>>
    ELSE LET r == Head(regions)
         IN  (IF r.region_type = "Usable"
                THEN [i \in 1..(r.end_frame_number - r.start_frame_number) |->
                        containing_address(r.start_frame_number * PAGE_SIZE
                                             + (i - 1) * PAGE_SIZE)]
                ELSE <<>>)
               \o usable_frames(Tail(regions))

\* allocate_frame: self.usable_frames().nth(self.next), then self.next += 1.
call_allocate_frame ==
    /\ frame_next < MaxFrameCalls
    /\ \E fs \in {usable_frames(memory_regions)} :
         frames' = Append(frames, IF frame_next < Len(fs)
                                    THEN fs[frame_next + 1] ELSE NoFrame)
    /\ frame_next' = frame_next + 1
    /\ UNCHANGED <<kpc, memory_map, tables_missing, page_table, page, heap_result,
                   init_heap_calls, heap_allocs, memory_regions,
                   bumpVars, init_calls, lockVars, kbdVars, llVars, moreVars>>

\* BootInfoFrameAllocator::init(memory_map): next is 0.  The bootloader's
\* map has three regions that do not overlap, not in address order, each of
\* 0 to MaxRegionFrames frames and usable or reserved.
FrameInit ==
    /\ \E h \in UninitHeaps : init(h[1], h[2])
    /\ NoCalls
    /\ LockIdle
    /\ KbdIdle
    /\ LinkedListIdle
    /\ MoreIdle
    /\ kpc = "off"
    /\ memory_map = 0
    /\ tables_missing = 0
    /\ page_table = <<>>
    /\ page = 0
    /\ heap_result = "running"
    /\ init_heap_calls = 0
    /\ heap_allocs = 0
    /\ \E len \in [1..3 -> 0..MaxRegionFrames],
          type \in [1..3 -> {"Usable", "Reserved"}] :
         memory_regions =
           [n \in 1..3 |->
              LET start == ((n + 1) % 3) * (MaxRegionFrames + 1)
              IN  [start_frame_number |-> start,
                   end_frame_number |-> start + len[n],
                   region_type |-> type[n]]]
    /\ frame_next = 0
    /\ frames = <<>>

FrameSpec == FrameInit /\ [][call_allocate_frame]_vars

\* ------------------------------------------------- the lock around the allocator

\* At most this many alloc and dealloc calls are started.
MaxCalls == 4

\* The execution contexts: the kernel's main flow and an interrupt handler.
Ctx == {"task", "irq"}

\* The part of a call that runs with the MutexGuard alive.
Critical == {"read", "write1", "write2", "unlock"}

\* A lock that lets everyone in.
try_lock_always(h) == TRUE

\* spin::Mutex: compare_exchange(false, true) succeeds only on a free lock.
try_lock(h) == h = "none"

\* Every context runs at any time.
runnable_any(c) == TRUE

\* On the one CPU an interrupt handler runs to completion before the context
\* it interrupted goes on; without preemption the contexts interleave freely.
runnable(c) ==
    IF preemptive THEN c = "irq" \/ cpc["irq"] = "idle" ELSE TRUE

\* dealloc as one step from the current state.
dealloc_result ==
    LET c == count_down(allocations)
    IN  IF c.ovf /\ overflow_checks
          THEN [path |-> "panic", ret |-> NULL, next |-> next,
                allocations |-> allocations, ovf |-> TRUE]
          ELSE [path |-> "done", ret |-> NULL, next |-> next_after_dealloc(c.val),
                allocations |-> c.val, ovf |-> c.ovf]

lockFrame == <<heap_start, heap_end, init_calls, overflow_checks, live, leaked,
               stale, last, scen, preemptive, bootVars, kbdVars, llVars, moreVars>>

\* A context calls ALLOCATOR.alloc(layout).
call_alloc(c, size, align) ==
    /\ ~panicked
    /\ runnable(c)
    /\ cpc[c] = "idle"
    /\ calls < MaxCalls
    /\ LayoutValid(size, align)
    /\ calls' = calls + 1
    /\ cpc' = [cpc EXCEPT ![c] = "lock"]
    /\ call' = [call EXCEPT ![c] = [op |-> "alloc", size |-> size, align |-> align,
                                    alloc_end |-> 0, path |-> "none"]]
    /\ UNCHANGED <<next, allocations, panicked, holder, expected, owned, lockFrame>>

\* A context calls ALLOCATOR.dealloc(ptr, layout) for an allocation it owns.
call_dealloc(c) ==
    /\ ~panicked
    /\ runnable(c)
    /\ cpc[c] = "idle"
    /\ calls < MaxCalls
    /\ owned > 0
    /\ calls' = calls + 1
    /\ owned' = owned - 1
    /\ cpc' = [cpc EXCEPT ![c] = "lock"]
    /\ call' = [call EXCEPT ![c] = [op |-> "dealloc", size |-> 0, align |-> 1,
                                    alloc_end |-> 0, path |-> "done"]]
    /\ UNCHANGED <<next, allocations, panicked, holder, expected, lockFrame>>

\* self.lock(): one round of the spin loop.  On a free lock it takes the
\* lock; on a held lock it changes nothing and comes round again.
lock(c) ==
    /\ ~panicked
    /\ runnable(c)
    /\ cpc[c] = "lock"
    /\ IF try_lock(holder)
         THEN /\ holder' = c
              /\ cpc' = [cpc EXCEPT ![c] = IF call[c].op = "alloc"
                                             THEN "read" ELSE "write1"]
              /\ expected' = [expected EXCEPT ![c] =
                                IF call[c].op = "alloc"
                                  THEN alloc_result(call[c].size, call[c].align)
                                  ELSE dealloc_result]
         ELSE UNCHANGED <<holder, cpc, expected>>
    /\ UNCHANGED <<next, allocations, panicked, call, calls, owned, lockFrame>>

\* alloc up to its two returns of null: alloc_start, alloc_end, the bounds check.
alloc_read(c) ==
    /\ ~panicked
    /\ runnable(c)
    /\ cpc[c] = "read"
    /\ \E r \in {alloc_result(call[c].size, call[c].align)} :
         /\ call' = [call EXCEPT ![c].alloc_end = r.next, ![c].path = r.path]
         /\ panicked' = (r.path = "panic")
         /\ cpc' = [cpc EXCEPT ![c] = IF r.path = "commit" THEN "write1" ELSE "unlock"]
    /\ UNCHANGED <<next, allocations, holder, expected, calls, owned, lockFrame>>

\* alloc: bump.next = alloc_end.  dealloc: bump.allocations -= 1.
write1(c) ==
    /\ ~panicked
    /\ runnable(c)
    /\ cpc[c] = "write1"
    /\ IF call[c].op = "alloc"
         THEN /\ next' = call[c].alloc_end
              /\ cpc' = [cpc EXCEPT ![c] = "write2"]
              /\ UNCHANGED <<allocations, panicked>>
         ELSE \E d \in {count_down(allocations)} :
                IF d.ovf /\ overflow_checks
                  THEN /\ panicked' = TRUE
                       /\ UNCHANGED <<next, allocations, cpc>>
                  ELSE /\ allocations' = d.val
                       /\ cpc' = [cpc EXCEPT ![c] = "write2"]
                       /\ UNCHANGED <<next, panicked>>
    /\ UNCHANGED <<holder, call, expected, calls, owned, lockFrame>>

\* alloc: bump.allocations += 1.  dealloc: if bump.allocations == 0, reset next.
write2(c) ==
    /\ ~panicked
    /\ runnable(c)
    /\ cpc[c] = "write2"
    /\ IF call[c].op = "alloc"
         THEN /\ allocations' = count_up(allocations).val
              /\ owned' = owned + 1
              /\ UNCHANGED next
         ELSE /\ next' = next_after_dealloc(allocations)
              /\ UNCHANGED <<allocations, owned>>
    /\ cpc' = [cpc EXCEPT ![c] = "unlock"]
    /\ UNCHANGED <<panicked, holder, call, expected, calls, lockFrame>>

\* The MutexGuard is dropped at the end of the call: the lock is free again.
unlock(c) ==
    /\ ~panicked
    /\ runnable(c)
    /\ cpc[c] = "unlock"
    /\ holder' = "none"
    /\ cpc' = [cpc EXCEPT ![c] = "idle"]
    /\ UNCHANGED <<next, allocations, panicked, call, expected, calls, owned, lockFrame>>

\* Nobody is in a call and the lock is free.
Unlocked ==
    /\ holder = "none"
    /\ cpc = [c \in Ctx |-> "idle"]
    /\ call = [c \in Ctx |-> [op |-> "none", size |-> 0, align |-> 1,
                              alloc_end |-> 0, path |-> "none"]]
    /\ expected = [c \in Ctx |-> [path |-> "none", ret |-> NULL, next |-> 0,
                                  allocations |-> 0, ovf |-> FALSE]]
    /\ calls = 0
    /\ owned = 0

LockInit ==
    /\ \E h \in UninitHeaps :
         /\ NoRoundingWrap(h[1], h[2])
         /\ init(h[1], h[2])
    /\ NoCalls
    /\ BootIdle
    /\ KbdIdle
    /\ LinkedListIdle
    /\ MoreIdle
    /\ Unlocked
    /\ preemptive \in BOOLEAN

LockNext ==
    \/ \E c \in Ctx, size \in {3, 8}, align \in {1, 8} : call_alloc(c, size, align)
    \/ \E c \in Ctx : call_dealloc(c)
    \/ \E c \in Ctx : lock(c)
    \/ \E c \in Ctx : alloc_read(c)
    \/ \E c \in Ctx : write1(c)
    \/ \E c \in Ctx : write2(c)
    \/ \E c \in Ctx : unlock(c)

LockSpec == LockInit /\ [][LockNext]_vars

\* --------------------------------------------------- keyboard scancodes

\* Capacity of SCANCODE_QUEUE (ArrayQueue::new(100) in the kernel).
ScancodeCap == 2

\* Capacity of Executor.task_queue (ArrayQueue::new(100) in the kernel).
TaskQueueCap == 2

\* At most this many keyboard interrupts are followed.
MaxIrqs == 4

\* Printing with interrupts left as they are.
with_interrupts(enabled) == enabled

\* interrupts::without_interrupts: the closure runs with interrupts disabled.
without_interrupts(enabled) == FALSE

kbdFrame == <<bumpVars, init_calls, bootVars, lockVars, llVars, moreVars>>

\* The history of the scancode stream.
streamVars == <<accepted, yielded, woken>>

\* queue.pop() that never finds a scancode.
queue_pop_never(queue) == [ok |-> FALSE, value |-> 0, queue |-> queue]

\* queue.pop() that takes the newest scancode.
queue_pop_back(queue) ==
    IF queue = <<>>
      THEN [ok |-> FALSE, value |-> 0, queue |-> queue]
      ELSE [ok |-> TRUE, value |-> queue[Len(queue)],
            queue |-> SubSeq(queue, 1, Len(queue) - 1)]

\* ArrayQueue::pop: the oldest scancode, or Err on an empty queue.
queue_pop(queue) ==
    IF queue = <<>>
      THEN [ok |-> FALSE, value |-> 0, queue |-> queue]
      ELSE [ok |-> TRUE, value |-> Head(queue), queue |-> Tail(queue)]

\* queue.push that makes room by dropping the oldest scancode.
queue_push_force(queue, scancode) ==
    IF Len(queue) = ScancodeCap
      THEN [ok |-> FALSE, queue |-> Append(Tail(queue), scancode)]
      ELSE [ok |-> TRUE, queue |-> Append(queue, scancode)]

\* ArrayQueue::push: the scancode goes to the back, or Err on a full queue.
queue_push(queue, scancode) ==
    IF Len(queue) = ScancodeCap
      THEN [ok |-> FALSE, queue |-> queue]
      ELSE [ok |-> TRUE, queue |-> Append(queue, scancode)]

\* An interrupt handler runs to completion before the task goes on.
task_runs == ~kpanic /\ kbd_pc["irq"] = "idle"

\* _print, _backspace: without_interrupts(|| ...) is entered.
print_enter(c) ==
    /\ ~kpanic
    /\ c = "task" => task_runs
    /\ kbd_pc[c] = "print"
    /\ saved_if' = [saved_if EXCEPT ![c] = interrupts_enabled]
    /\ interrupts_enabled' = without_interrupts(interrupts_enabled)
    /\ kbd_pc' = [kbd_pc EXCEPT ![c] = "lock_writer"]
    /\ UNCHANGED <<writer_lock, scancode_queue, waker, strong_count, task_queue,
                   executor, irqs, irq_heap_calls, paths, kpanic,
                   streamVars, kbdFrame>>

\* WRITER_GLOBAL.lock(): one round of the spin loop.
lock_writer(c) ==
    /\ ~kpanic
    /\ c = "task" => task_runs
    /\ kbd_pc[c] = "lock_writer"
    /\ IF writer_lock = "none"
         THEN /\ writer_lock' = c
              /\ kbd_pc' = [kbd_pc EXCEPT ![c] = "write"]
         ELSE UNCHANGED <<writer_lock, kbd_pc>>
    /\ UNCHANGED <<interrupts_enabled, saved_if, scancode_queue, waker, strong_count,
                   task_queue, executor, irqs, irq_heap_calls, paths, kpanic,
                   streamVars, kbdFrame>>

\* write_fmt(args).unwrap(); the guard is dropped at the end of the statement.
write(c) ==
    /\ ~kpanic
    /\ c = "task" => task_runs
    /\ kbd_pc[c] = "write"
    /\ writer_lock' = "none"
    /\ kbd_pc' = [kbd_pc EXCEPT ![c] = "restore"]
    /\ UNCHANGED <<interrupts_enabled, saved_if, scancode_queue, waker, strong_count,
                   task_queue, executor, irqs, irq_heap_calls, paths, kpanic,
                   streamVars, kbdFrame>>

\* without_interrupts returns: interrupts are enabled again if they were before.
restore(c) ==
    /\ ~kpanic
    /\ c = "task" => task_runs
    /\ kbd_pc[c] = "restore"
    /\ interrupts_enabled' = (saved_if[c] \/ interrupts_enabled)
    /\ kbd_pc' = [kbd_pc EXCEPT ![c] = IF c = "task" THEN "pop1" ELSE "iret"]
    /\ UNCHANGED <<writer_lock, saved_if, scancode_queue, waker, strong_count,
                   task_queue, executor, irqs, irq_heap_calls, paths, kpanic,
                   streamVars, kbdFrame>>

\* SimpleExecutor::run polls the task with a dummy waker.  Executor::run polls
\* it when its id is in task_queue, with the TaskWaker of waker_cache, which
\* is created (Arc::new) on the first poll.
run_ready_tasks ==
    /\ task_runs
    /\ kbd_pc["task"] = "idle"
    /\ IF executor = "simple"
         THEN UNCHANGED <<task_queue, strong_count>>
         ELSE /\ task_queue > 0
              /\ task_queue' = task_queue - 1
              /\ strong_count' = IF strong_count = 0 THEN 1 ELSE strong_count
    /\ kbd_pc' = [kbd_pc EXCEPT !["task"] = "poll"]
    /\ UNCHANGED <<interrupts_enabled, writer_lock, saved_if, scancode_queue, waker,
                   executor, irqs, irq_heap_calls, paths, kpanic,
                   streamVars, kbdFrame>>

\* print_keypresses is polled: the first poll runs ScancodeStream::new, which
\* initializes SCANCODE_QUEUE; every poll goes on into poll_next.
poll ==
    /\ task_runs
    /\ kbd_pc["task"] = "poll"
    /\ scancode_queue' = IF scancode_queue = Uninit THEN <<>> ELSE scancode_queue
    /\ kbd_pc' = [kbd_pc EXCEPT !["task"] = "pop1"]
    /\ UNCHANGED <<interrupts_enabled, writer_lock, saved_if, waker, strong_count,
                   task_queue, executor, irqs, irq_heap_calls, paths, kpanic,
                   streamVars, kbdFrame>>

\* poll_next, fast path: queue.pop(); a scancode is decoded and printed.
pop1 ==
    /\ task_runs
    /\ kbd_pc["task"] = "pop1"
    /\ LET r == queue_pop(scancode_queue)
       IN  /\ scancode_queue' = r.queue
           /\ yielded' = IF r.ok THEN Append(yielded, r.value) ELSE yielded
           /\ kbd_pc' = [kbd_pc EXCEPT !["task"] = IF r.ok THEN "print" ELSE "register"]
    /\ UNCHANGED <<interrupts_enabled, writer_lock, saved_if, waker, strong_count,
                   task_queue, executor, irqs, irq_heap_calls, paths, kpanic,
                   accepted, woken, kbdFrame>>

\* WAKER.register(&cx.waker()): a clone of the context's waker is stored,
\* unless the stored waker already wakes the same task.
register ==
    /\ task_runs
    /\ kbd_pc["task"] = "register"
    /\ \E w \in {IF executor = "simple" THEN "dummy" ELSE "task_waker"} :
         /\ waker' = w
         /\ strong_count' = IF w = "task_waker" /\ waker # w
                              THEN strong_count + 1 ELSE strong_count
    /\ woken' = FALSE
    /\ kbd_pc' = [kbd_pc EXCEPT !["task"] = "pop2"]
    /\ UNCHANGED <<interrupts_enabled, writer_lock, saved_if, scancode_queue,
                   task_queue, executor, irqs, irq_heap_calls, paths, kpanic,
                   accepted, yielded, kbdFrame>>

\* poll_next, second queue.pop(): Ok goes on to WAKER.take(), Err is Pending.
pop2 ==
    /\ task_runs
    /\ kbd_pc["task"] = "pop2"
    /\ LET r == queue_pop(scancode_queue)
       IN  /\ scancode_queue' = r.queue
           /\ yielded' = IF r.ok THEN Append(yielded, r.value) ELSE yielded
           /\ kbd_pc' = [kbd_pc EXCEPT !["task"] = IF r.ok THEN "take" ELSE "idle"]
    /\ UNCHANGED <<interrupts_enabled, writer_lock, saved_if, waker, strong_count,
                   task_queue, executor, irqs, irq_heap_calls, paths, kpanic,
                   accepted, woken, kbdFrame>>

\* WAKER.take(): the stored waker, if any, is dropped by the task.
take ==
    /\ task_runs
    /\ kbd_pc["task"] = "take"
    /\ waker' = "none"
    /\ strong_count' = IF waker = "task_waker" THEN strong_count - 1 ELSE strong_count
    /\ kbd_pc' = [kbd_pc EXCEPT !["task"] = "print"]
    /\ UNCHANGED <<interrupts_enabled, writer_lock, saved_if, scancode_queue,
                   task_queue, executor, irqs, irq_heap_calls, paths, kpanic,
                   streamVars, kbdFrame>>

\* The keyboard interrupt: the CPU clears the interrupt flag and the handler
\* calls add_scancode.
interrupt ==
    /\ ~kpanic
    /\ interrupts_enabled
    /\ kbd_pc["irq"] = "idle"
    /\ irqs < MaxIrqs
    /\ irqs' = irqs + 1
    /\ interrupts_enabled' = FALSE
    /\ kbd_pc' = [kbd_pc EXCEPT !["irq"] = "try_get"]
    /\ UNCHANGED <<writer_lock, saved_if, scancode_queue, waker, strong_count,
                   task_queue, executor, irq_heap_calls, paths, kpanic,
                   streamVars, kbdFrame>>

\* add_scancode: SCANCODE_QUEUE.try_get(), then queue.push(scancode).  An
\* uninitialized or full queue leads to println!, a push to WAKER.wake().
add_scancode(scancode) ==
    /\ ~kpanic
    /\ kbd_pc["irq"] = "try_get"
    /\ IF scancode_queue = Uninit
         THEN /\ paths' = paths \cup {"uninitialized"}
              /\ kbd_pc' = [kbd_pc EXCEPT !["irq"] = "print"]
              /\ UNCHANGED <<scancode_queue, accepted>>
         ELSE LET r == queue_push(scancode_queue, scancode)
              IN  /\ scancode_queue' = r.queue
                  /\ paths' = paths \cup {IF r.ok THEN "pushed" ELSE "full"}
                  /\ accepted' = IF r.ok THEN Append(accepted, scancode) ELSE accepted
                  /\ kbd_pc' = [kbd_pc EXCEPT !["irq"] = IF r.ok THEN "wake" ELSE "print"]
    /\ UNCHANGED <<interrupts_enabled, writer_lock, saved_if, waker, strong_count,
                   task_queue, executor, irqs, irq_heap_calls, kpanic, yielded, woken,
                   kbdFrame>>

\* WAKER.wake(): the stored waker is taken and woken.  The dummy waker does
\* nothing.  TaskWaker::wake pushes the task id (panicking on a full
\* task_queue) and drops its Arc; dropping the last Arc frees the TaskWaker.
wake ==
    /\ ~kpanic
    /\ kbd_pc["irq"] = "wake"
    /\ waker' = "none"
    /\ woken' = (woken \/ waker # "none")
    /\ IF waker = "task_waker"
         THEN IF task_queue = TaskQueueCap
                THEN /\ kpanic' = TRUE
                     /\ UNCHANGED <<task_queue, strong_count, irq_heap_calls, kbd_pc>>
                ELSE /\ task_queue' = task_queue + 1
                     /\ strong_count' = strong_count - 1
                     /\ irq_heap_calls' = IF strong_count - 1 = 0
                                            THEN irq_heap_calls + 1 ELSE irq_heap_calls
                     /\ kbd_pc' = [kbd_pc EXCEPT !["irq"] = "iret"]
                     /\ UNCHANGED kpanic
         ELSE /\ kbd_pc' = [kbd_pc EXCEPT !["irq"] = "iret"]
              /\ UNCHANGED <<task_queue, strong_count, irq_heap_calls, kpanic>>
    /\ UNCHANGED <<interrupts_enabled, writer_lock, saved_if, scancode_queue,
                   executor, irqs, paths, accepted, yielded, kbdFrame>>

\* The handler returns; iretq restores the interrupted context's flags.
iret ==
    /\ ~kpanic
    /\ kbd_pc["irq"] = "iret"
    /\ interrupts_enabled' = TRUE
    /\ kbd_pc' = [kbd_pc EXCEPT !["irq"] = "idle"]
    /\ UNCHANGED <<writer_lock, saved_if, scancode_queue, waker, strong_count,
                   task_queue, executor, irqs, irq_heap_calls, paths, kpanic,
                   streamVars, kbdFrame>>

\* main() has spawned print_keypresses on one of the two executors and
\* interrupts are enabled.
KbdInit ==
    /\ \E h \in UninitHeaps : init(h[1], h[2])
    /\ NoCalls
    /\ BootIdle
    /\ LockIdle
    /\ LinkedListIdle
    /\ MoreIdle
    /\ interrupts_enabled = TRUE
    /\ writer_lock = "none"
    /\ saved_if = [c \in Ctx |-> FALSE]
    /\ scancode_queue = Uninit
    /\ waker = "none"
    /\ strong_count = 0
    /\ executor \in {"simple", "executor"}
    /\ task_queue = IF executor = "executor" THEN 1 ELSE 0
    /\ kbd_pc = [c \in Ctx |-> "idle"]
    /\ irqs = 0
    /\ irq_heap_calls = 0
    /\ paths = {}
    /\ kpanic = FALSE
    /\ accepted = <<>>
    /\ yielded = <<>>
    /\ woken = FALSE

KbdNext ==
    \/ \E c \in Ctx : print_enter(c)
    \/ \E c \in Ctx : lock_writer(c)
    \/ \E c \in Ctx : write(c)
    \/ \E c \in Ctx : restore(c)
    \/ run_ready_tasks
    \/ poll
    \/ pop1
    \/ register
    \/ pop2
    \/ take
    \/ interrupt
    \* the scancode read at the k-th interrupt is k
    \/ add_scancode(irqs)
    \/ wake
    \/ iret

KbdSpec == KbdInit /\ [][KbdNext]_vars

\* ------------------------------------------------- linked-list allocator
\* linked_list.rs is not part of the sources; this section follows the
\* description of the linked-list allocator in the specification.

\* The bytes a free node needs for its own bookkeeping (size and next).
NodeSize == 16

\* The region never fits.
fits_always(node, size, align) == TRUE

\* [aligned_start, aligned_start + size) lies inside the node's region.
fits(node, size, align) ==
    RoundUp(node.start, align) + size <= node.start + node.size

\* The index of the fitting node with the least size, 0 if none fits.
best_fit(size, align) ==
    LET hits == {i \in 1..Len(free_list) : fits(free_list[i], size, align)}
    IN  IF hits = {} THEN 0
        ELSE CHOOSE i \in hits : \A j \in hits :
                 \/ free_list[i].size < free_list[j].size
                 \/ free_list[i].size = free_list[j].size /\ i <= j

\* The index of the first node in list order that fits, 0 if none does.
first_fit(size, align) ==
    LET hits == {i \in 1..Len(free_list) : fits(free_list[i], size, align)}
    IN  IF hits = {} THEN 0 ELSE CHOOSE i \in hits : \A j \in hits : i <= j

\* The whole node is re-inserted, the allocated bytes included.
remainders_whole(node, size, align) == <<node>>

\* The leading gap and the trailing remainder of an allocation in a node, in
\* address order, each only if it can hold a node.
remainders(node, size, align) ==
    LET s     == RoundUp(node.start, align)
        lead  == [start |-> node.start, size |-> s - node.start]
        trail == [start |-> s + size, size |-> node.start + node.size - (s + size)]
    IN  SelectSeq(<<lead, trail>>, LAMBDA r : r.size >= NodeSize)

\* The freed region becomes the last node.
push_back(node, list) == Append(list, node)

\* The freed region becomes the head of the list.
push_front(node, list) == <<node>> \o list

\* The round-trip monitor after an alloc.  Stage 1: an alloc succeeded on a
\* heap of one free region with nothing allocated.  Stage 3: the same request
\* was made again right after that allocation was given back; ptr2 is what
\* it returned.
trip_alloc(ptr, size, align) ==
    IF ll_trip.stage = 2 /\ size = ll_trip.size /\ align = ll_trip.align
      THEN [ll_trip EXCEPT !.stage = 3, !.ptr2 = ptr]
    ELSE IF ptr # NULL /\ Len(free_list) = 1 /\ ll_live = <<>>
      THEN [stage |-> 1, ptr |-> ptr, size |-> size, align |-> align, ptr2 |-> NULL]
    ELSE [stage |-> 0, ptr |-> NULL, size |-> 0, align |-> 1, ptr2 |-> NULL]

\* The round-trip monitor after a dealloc.  Stage 2: the allocation of stage 1
\* was given back by the next call.
trip_dealloc(ptr) ==
    IF ll_trip.stage = 1 /\ ptr = ll_trip.ptr
      THEN [ll_trip EXCEPT !.stage = 2]
      ELSE [stage |-> 0, ptr |-> NULL, size |-> 0, align |-> 1, ptr2 |-> NULL]

\* The scenario monitor: stage 0 fresh, 1..4 the four calls of the scenario
\* made in order with nothing in between, 5 any other history; ptrs are the
\* addresses the allocs of the scenario returned.
ll_scen_alloc(ptr, size) ==
    IF ll_scen.stage = 0 /\ size = 16 THEN [stage |-> 1, ptrs |-> <<ptr>>]
    ELSE IF ll_scen.stage = 1 /\ size = 16
      THEN [stage |-> 2, ptrs |-> Append(ll_scen.ptrs, ptr)]
    ELSE IF ll_scen.stage = 3 /\ size = 8
      THEN [stage |-> 4, ptrs |-> Append(ll_scen.ptrs, ptr)]
    ELSE [stage |-> 5, ptrs |-> <<>>]

ll_scen_dealloc(i) ==
    IF ll_scen.stage = 2 /\ i = 1 THEN [ll_scen EXCEPT !.stage = 3]
    ELSE [stage |-> 5, ptrs |-> <<>>]

llFrame == <<bumpVars, init_calls, bootVars, lockVars, kbdVars, vgaVars, execVars>>

\* alloc(size, align): first fit.  The node is removed; its remainders are
\* re-inserted, at the front of the list or where the node was (the
\* description leaves the place open).  Without a fitting node the call fails
\* and returns null.
ll_alloc(size, align) ==
    /\ Len(ll_live) < MaxLive
    /\ \E i \in {first_fit(size, align)} :
         IF i = 0
           THEN /\ ll_last' = [op |-> "alloc", ptr |-> NULL, size |-> size,
                                align |-> align]
                /\ ll_trip' = trip_alloc(NULL, size, align)
                /\ ll_scen' = ll_scen_alloc(NULL, size)
                /\ UNCHANGED <<free_list, ll_live>>
           ELSE \E front \in BOOLEAN :
                  LET node == free_list[i]
                      rest == remainders(node, size, align)
                      ptr  == RoundUp(node.start, align)
                  IN  /\ free_list' =
                           IF front THEN rest \o Remove(free_list, i)
                           ELSE SubSeq(free_list, 1, i - 1) \o rest
                                \o SubSeq(free_list, i + 1, Len(free_list))
                      /\ ll_live' = Append(ll_live, [ptr |-> ptr, size |-> size,
                                                     align |-> align])
                      /\ ll_last' = [op |-> "alloc", ptr |-> ptr, size |-> size,
                                      align |-> align]
                      /\ ll_trip' = trip_alloc(ptr, size, align)
                      /\ ll_scen' = ll_scen_alloc(ptr, size)
    /\ pre_free' = free_list
    /\ UNCHANGED <<ll_heap, llFrame>>

\* dealloc(ptr, layout) of a live allocation: the freed region is pushed to
\* the front of the list; nothing is merged.
ll_dealloc(i) ==
    /\ free_list' = push_front([start |-> ll_live[i].ptr, size |-> ll_live[i].size],
                               free_list)
    /\ ll_live' = Remove(ll_live, i)
    /\ ll_last' = [op |-> "dealloc", ptr |-> ll_live[i].ptr, size |-> ll_live[i].size,
                    align |-> ll_live[i].align]
    /\ ll_trip' = trip_dealloc(ll_live[i].ptr)
    /\ ll_scen' = ll_scen_dealloc(i)
    /\ pre_free' = free_list
    /\ UNCHANGED <<ll_heap, llFrame>>

\* Heaps as <<start, size>>: 64 bytes at a 64-byte boundary, and 72 bytes
\* starting 16 bytes above a 32-byte boundary.
LLHeaps == {<<4096, 64>>, <<4112, 72>>}

\* init(start, size): one free node spanning the whole heap.
ll_init(start, size) ==
    /\ \E h \in UninitHeaps : init(h[1], h[2])
    /\ NoCalls
    /\ BootIdle
    /\ LockIdle
    /\ KbdIdle
    /\ ll_heap = [start |-> start, size |-> size]
    /\ free_list = <<[start |-> start, size |-> size]>>
    /\ ll_live = <<>>
    /\ ll_last = [op |-> "init", ptr |-> NULL, size |-> 0, align |-> 1]
    /\ ll_trip = [stage |-> 0, ptr |-> NULL, size |-> 0, align |-> 1, ptr2 |-> NULL]
    /\ pre_free = <<>>
    /\ ll_scen = [stage |-> 0, ptrs |-> <<>>]

LinkedListInit == MoreIdle /\ \E h \in LLHeaps : ll_init(h[1], h[2])

LinkedListNext ==
    /\ \/ \E size \in {16, 40}, align \in {1, 32} : ll_alloc(size, align)
       \/ \E i \in 1..Len(ll_live) : ll_dealloc(i)
    /\ UNCHANGED fsbVars

LinkedListSpec == LinkedListInit /\ [][LinkedListNext]_vars

\* The 64-byte heap of the scenario, at two bases, with requests of 8 and 16
\* bytes aligned to 8.
LLScenarioInit == MoreIdle /\ \E base \in {4096, 8208} : ll_init(base, 64)

LLScenarioSpec ==
    /\ LLScenarioInit
    /\ [][/\ \/ \E size \in {8, 16} : ll_alloc(size, 8)
             \/ \E i \in 1..Len(ll_live) : ll_dealloc(i)
          /\ UNCHANGED fsbVars]_vars

\* -------------------------------------------- fixed-size-block allocator
\* fixed_size_block.rs is not part of the sources; this section follows the
\* description of the fixed-size-block allocator in the specification.

\* The size classes, ascending.
BLOCK_SIZES == <<8, 16, 32>>

\* No class: every request goes to the fallback allocator.
list_index_none(size, align) == 0

\* The largest class, whatever the request.
list_index_last(size, align) == Len(BLOCK_SIZES)

\* The smallest class whose size is >= size, whatever the alignment.
list_index_size_only(size, align) ==
    LET ok == {k \in 1..Len(BLOCK_SIZES) : BLOCK_SIZES[k] >= size}
    IN  IF ok = {} THEN 0 ELSE CHOOSE k \in ok : \A j \in ok : k <= j

\* The class of a request: the index of the smallest class whose size is
\* >= size and, taken as the block's alignment, satisfies align; 0 if no
\* class qualifies.
list_index(size, align) ==
    LET ok == {k \in 1..Len(BLOCK_SIZES) :
                  BLOCK_SIZES[k] >= size /\ BLOCK_SIZES[k] % align = 0}
    IN  IF ok = {} THEN 0 ELSE CHOOSE k \in ok : \A j \in ok : k <= j

\* alloc(size, align).  Without a class the request is delegated to the
\* fallback allocator.  With a class, the head of its free list is popped;
\* if the list is empty a block of the class size, aligned to it, is carved
\* from the fallback allocator.
fsb_alloc(size, align) ==
    /\ \E k \in {list_index(size, align)} :
         IF k # 0 /\ list_heads[k] # <<>>
           THEN /\ list_heads' = [list_heads EXCEPT ![k] = Tail(@)]
                /\ fsb_live' = Append(fsb_live, [ptr |-> Head(list_heads[k]),
                                                  size |-> size, align |-> align,
                                                  class |-> k])
                /\ fsb_last' = [op |-> "alloc", ptr |-> Head(list_heads[k]),
                                 size |-> size, align |-> align, class |-> k,
                                 from |-> k, fallback |-> FALSE]
                /\ UNCHANGED <<llVars, llFrame>>
           ELSE /\ IF k = 0 THEN ll_alloc(size, align)
                             ELSE ll_alloc(BLOCK_SIZES[k], BLOCK_SIZES[k])
                /\ fsb_live' = IF ll_last'.ptr = NULL THEN fsb_live
                                ELSE Append(fsb_live, [ptr |-> ll_last'.ptr,
                                                       size |-> size, align |-> align,
                                                       class |-> k])
                /\ fsb_last' = [op |-> "alloc", ptr |-> ll_last'.ptr, size |-> size,
                                 align |-> align, class |-> k, from |-> k,
                                 fallback |-> TRUE]
                /\ UNCHANGED list_heads
    /\ fsb_prev' = fsb_last

\* dealloc(ptr, layout) of a live allocation with the layout of its alloc.
\* The class is selected from (size, align) by the rule of alloc; the block
\* is pushed onto that class's free list, or, without a class, the free is
\* forwarded to the fallback allocator.
fsb_dealloc(i) ==
    /\ \E k \in {list_index(fsb_live[i].size, fsb_live[i].align)} :
         /\ IF k # 0
              THEN /\ list_heads' = [list_heads EXCEPT ![k] = <<fsb_live[i].ptr>> \o @]
                   /\ UNCHANGED <<llVars, llFrame>>
              ELSE /\ \E j \in 1..Len(ll_live) :
                          /\ ll_live[j].ptr = fsb_live[i].ptr
                          /\ ll_dealloc(j)
                   /\ UNCHANGED list_heads
         /\ fsb_last' = [op |-> "dealloc", ptr |-> fsb_live[i].ptr,
                          size |-> fsb_live[i].size, align |-> fsb_live[i].align,
                          class |-> k, from |-> fsb_live[i].class,
                          fallback |-> k = 0]
    /\ fsb_live' = Remove(fsb_live, i)
    /\ fsb_prev' = fsb_last

\* init(start, size): the class lists are empty and the fallback allocator
\* owns the heap, 96 bytes here.
FsbInit ==
    /\ ll_init(4096, 96)
    /\ VgaIdle
    /\ ExecIdle
    /\ list_heads = [k \in 1..Len(BLOCK_SIZES) |-> <<>>]
    /\ fsb_live = <<>>
    /\ fsb_last = [op |-> "init", ptr |-> NULL, size |-> 0, align |-> 1, class |-> 0,
                    from |-> 0, fallback |-> FALSE]
    /\ fsb_prev = fsb_last

FsbSpec ==
    /\ FsbInit
    /\ [][\/ \E l \in {<<3, 1>>, <<5, 1>>, <<8, 1>>, <<3, 16>>, <<40, 8>>} :
                fsb_alloc(l[1], l[2])
          \/ \E i \in 1..Len(fsb_live) : fsb_dealloc(i)]_vars

\* -------------------------------------------------------------- VGA writer

\* Columns of the text buffer (80 on the hardware).
BUFFER_WIDTH == 3

\* Rows of the text buffer (25 on the hardware).
BUFFER_HEIGHT == 3

\* A Writer record is its column_position and buffer, with the history of
\* one call: cells, the <<row, col>> indices into buffer.chars the call has
\* used, and underflow, whether a usize subtraction went below zero.

\* clear_row(row): blanks in every column of the row.
clear_row(buf, row) == [buf EXCEPT ![row + 1] = [col \in 1..BUFFER_WIDTH |-> 32]]

\* The cursor returns to column 0 and nothing scrolls.
new_line_stay(w) == [w EXCEPT !.column_position = 0]

\* new_line: every row moves up by one, the last row is cleared and the
\* cursor returns to column 0.
new_line(w) ==
    [w EXCEPT
       !.column_position = 0,
       !.buffer = clear_row([row \in 1..BUFFER_HEIGHT |->
                                IF row < BUFFER_HEIGHT THEN w.buffer[row + 1]
                                ELSE w.buffer[row]],
                            BUFFER_HEIGHT - 1),
       !.cells = @ \cup ((0..(BUFFER_HEIGHT - 1)) \X (0..(BUFFER_WIDTH - 1)))]

\* write_byte that goes on past the last column.
write_byte_nowrap(w, byte) ==
    IF byte = 10 THEN new_line(w)
    ELSE [w EXCEPT
            !.column_position = @ + 1,
            !.buffer = [w.buffer EXCEPT
                           ![BUFFER_HEIGHT][w.column_position + 1] = byte],
            !.cells = @ \cup {<<BUFFER_HEIGHT - 1, w.column_position>>}]

\* write_byte: a newline starts a new line; any other byte goes to the last
\* row at the cursor, after a new line if the cursor is past the last column.
write_byte(w, byte) ==
    IF byte = 10 THEN new_line(w)
    ELSE LET w1 == IF w.column_position >= BUFFER_WIDTH THEN new_line(w) ELSE w
         IN  [w1 EXCEPT
                !.column_position = @ + 1,
                !.buffer = [w1.buffer EXCEPT
                               ![BUFFER_HEIGHT][w1.column_position + 1] = byte],
                !.cells = @ \cup {<<BUFFER_HEIGHT - 1, w1.column_position>>}]

\* write_string: the bytes in order; a byte that is neither printable ASCII
\* nor a newline is written as 0xfe.
RECURSIVE write_string(_, _)
write_string(w, s) ==
    IF s = <<>> THEN w
    ELSE write_string(write_byte(w, IF Head(s) \in 32..126 \/ Head(s) = 10
                                      THEN Head(s) ELSE 254),
                      Tail(s))

\* get_char_pos(row): the column of the last character of the row that is
\* not a blank, 0 if there is none.
get_char_pos(buf, row) ==
    LET cols == {col \in 0..(BUFFER_WIDTH - 1) : buf[row + 1][col + 1] # 32}
    IN  IF cols = {} THEN 0 ELSE CHOOSE col \in cols : \A c \in cols : c <= col

\* del_line: rows 0 .. BUFFER_HEIGHT - 2 are copied one row down, row 1 is
\* cleared and the cursor goes two past the last character of the last row.
del_line(w) ==
    LET moved == clear_row([row \in 1..BUFFER_HEIGHT |->
                               IF row = 1 THEN w.buffer[row] ELSE w.buffer[row - 1]],
                           1)
    IN  [w EXCEPT
           !.column_position = get_char_pos(moved, BUFFER_HEIGHT - 1) + 2,
           !.buffer = moved,
           !.cells = @ \cup ((0..(BUFFER_HEIGHT - 1)) \X (0..(BUFFER_WIDTH - 1)))
                       \cup ({1} \X (0..(BUFFER_WIDTH - 1)))]

\* backspace: at column 0 the line is deleted first; the cell before the
\* cursor, at most the last column, is blanked and the cursor moves onto it.
\* column_position - 1 is a usize subtraction.
backspace(w) ==
    LET w1 == IF w.column_position <= 0 THEN del_line(w) ELSE w
        below == w1.column_position - 1 < 0
        col0 == (w1.column_position - 1) % WORD
        col == IF col0 > BUFFER_WIDTH - 1 THEN BUFFER_WIDTH - 1 ELSE col0
    IN  [w1 EXCEPT
           !.column_position = col,
           !.buffer = [w1.buffer EXCEPT ![BUFFER_HEIGHT][col + 1] = 32],
           !.cells = @ \cup {<<BUFFER_HEIGHT - 1, col>>},
           !.underflow = @ \/ below]

\* clear_screen: every row is cleared; the cursor stays.
clear_screen(w) ==
    [w EXCEPT
       !.buffer = [row \in 1..BUFFER_HEIGHT |-> [col \in 1..BUFFER_WIDTH |-> 32]],
       !.cells = @ \cup ((0..(BUFFER_HEIGHT - 1)) \X (0..(BUFFER_WIDTH - 1)))]

\* WRITER_GLOBAL.lock(): the writer as a call finds it.
WRITER_GLOBAL ==
    [column_position |-> column_position, buffer |-> buffer,
     cells |-> {}, underflow |-> FALSE]

\* writeln!(writer, "\n{}", s): write_fmt hands the pieces "\n", s and "\n"
\* to write_str one after the other.
write_str ==
    /\ vga_done < 3
    /\ \E w \in {write_string(WRITER_GLOBAL,
                               IF vga_done = 1 THEN vga_text ELSE <<10>>)} :
         /\ column_position' = w.column_position
         /\ buffer' = w.buffer
    /\ vga_done' = vga_done + 1
    /\ UNCHANGED <<vga_text, bumpVars, init_calls, bootVars, lockVars, kbdVars, llVars,
                   fsbVars, execVars>>

\* Strings of at most n bytes out of 'A', '~' and the non-printable 200.
RECURSIVE Strings(_)
Strings(n) ==
    IF n = 0 THEN {<<>>}
    ELSE Strings(n - 1) \cup {Append(t, b) : t \in Strings(n - 1), b \in {65, 126, 200}}

\* The screen holds anything and the cursor is anywhere when the test starts.
VgaInit ==
    /\ \E h \in UninitHeaps : init(h[1], h[2])
    /\ NoCalls
    /\ BootIdle
    /\ LockIdle
    /\ KbdIdle
    /\ LinkedListIdle
    /\ FsbIdle
    /\ ExecIdle
    /\ column_position \in 0..BUFFER_WIDTH
    /\ buffer \in {[row \in 1..BUFFER_HEIGHT |-> [col \in 1..BUFFER_WIDTH |-> 35]],
                    [row \in 1..BUFFER_HEIGHT |->
                        [col \in 1..BUFFER_WIDTH |-> IF col = row THEN 32 ELSE 48 + row]]}
    /\ vga_text \in Strings(BUFFER_WIDTH)
    /\ vga_done = 0

VgaSpec == VgaInit /\ [][write_str]_vars

\* A call on the locked writer returns and leaves the writer as w.
returns(w) ==
    /\ column_position' = w.column_position
    /\ buffer' = w.buffer
    /\ UNCHANGED <<vga_text, vga_done, bumpVars, init_calls, bootVars, lockVars, kbdVars,
                   llVars, fsbVars, execVars>>

\* The writer of lazy_static WRITER_GLOBAL: column 0, on a screen that is
\* blank or full of text.
WriterInit ==
    /\ \E h \in UninitHeaps : init(h[1], h[2])
    /\ NoCalls
    /\ BootIdle
    /\ LockIdle
    /\ KbdIdle
    /\ LinkedListIdle
    /\ FsbIdle
    /\ ExecIdle
    /\ column_position = 0
    /\ \E byte \in {32, 65} :
         buffer = [row \in 1..BUFFER_HEIGHT |-> [col \in 1..BUFFER_WIDTH |-> byte]]
    /\ vga_text = <<>>
    /\ vga_done = 0

\* The bytes and strings written: 'A', a line, a line break before text, and
\* a string longer than a row.
WriterStrings ==
    {<<65, 10>>, <<10, 65, 65>>, [i \in 1..(BUFFER_WIDTH + 1) |-> 65]}

\* Any sequence of calls of write_byte, write_string, backspace and
\* clear_screen.
WriterSpec ==
    /\ WriterInit
    /\ [][\/ \E byte \in {65, 10} : returns(write_byte(WRITER_GLOBAL, byte))
          \/ \E s \in WriterStrings : returns(write_string(WRITER_GLOBAL, s))
          \/ returns(backspace(WRITER_GLOBAL))
          \/ returns(clear_screen(WRITER_GLOBAL))]_vars

\* ---------------------------------------------------------------- Executor

\* main() spawns at most this many tasks that fit the queue, and one more.
MaxTasks == 2

\* Width of the task id counter (64 in the kernel).
ID_BITS == 2

\* The lookup finds a task for every id.
get_mut_any(id) == TRUE

\* tasks.get_mut(&task_id) is Some.
get_mut(id) == id \in tasks

\* The interrupt flag is left as it is.
interrupts_disable_skip(flag) == flag

\* interrupts::disable(): cli.
interrupts_disable(flag) == FALSE

taskFrame == <<bumpVars, init_calls, bootVars, lockVars, llVars, fsbVars, vgaVars,
               writer_lock, saved_if, scancode_queue, waker, strong_count, executor,
               kbd_pc, irq_heap_calls, paths, accepted, yielded, woken>>

spawnFrame == <<taskFrame, polls_left>>

execFrame == <<spawnFrame, NEXT_ID>>

\* NEXT_ID.fetch_add(1, Ordering::Relaxed): the counter wraps around.
fetch_add(id) == (id + 1) % (2 ^ ID_BITS)

\* Task::new(..) whose task is dropped without being spawned.
task_new ==
    /\ ~kpanic
    /\ epc = "main"
    /\ NEXT_ID' = fetch_add(NEXT_ID)
    /\ UNCHANGED <<tasks, waker_cache, epc, task_id, registered, irq_pending, done,
                   skipped, interrupts_enabled, task_queue, irqs, kpanic, spawnFrame>>

\* BTreeMap::insert: the task is stored under its id; is_some tells whether
\* the id already had a task.
insert(map, id) == [is_some |-> id \in map, map |-> map \cup {id}]

\* task_queue.push(task_id) that overwrites the newest id of a full queue.
push_over(queue, id) ==
    IF Len(queue) = TaskQueueCap
      THEN [ok |-> TRUE, queue |-> Append(SubSeq(queue, 1, Len(queue) - 1), id)]
      ELSE [ok |-> TRUE, queue |-> Append(queue, id)]

\* ArrayQueue::push on task_queue: Err on a full queue.
push(queue, id) ==
    IF Len(queue) = TaskQueueCap
      THEN [ok |-> FALSE, queue |-> queue]
      ELSE [ok |-> TRUE, queue |-> Append(queue, id)]

\* executor.spawn(Task::new(..)) in main(): TaskId::new() hands out the next
\* id; the task is inserted (panic if the id already had a task) and its id
\* pushed (panic on a full queue).
spawn ==
    /\ ~kpanic
    /\ epc = "main"
    /\ Cardinality(tasks) <= MaxTasks
    /\ NEXT_ID' = fetch_add(NEXT_ID)
    /\ LET i == insert(tasks, NEXT_ID)
           q == push(task_queue, NEXT_ID)
       IN  /\ tasks' = i.map
           /\ IF i.is_some
                THEN kpanic' = TRUE /\ UNCHANGED task_queue
                ELSE kpanic' = ~q.ok /\ task_queue' = q.queue
    /\ UNCHANGED <<waker_cache, epc, task_id, registered, irq_pending, done, skipped,
                   interrupts_enabled, irqs, spawnFrame>>

\* executor.run(): the loop is entered.
run ==
    /\ ~kpanic
    /\ epc = "main"
    /\ epc' = "pop"
    /\ UNCHANGED <<tasks, waker_cache, task_id, registered, irq_pending, done, skipped,
                   interrupts_enabled, task_queue, irqs, kpanic, execFrame>>

\* run_ready_tasks, the head of the while loop: task_queue.pop().  An empty
\* queue ends the loop and sleep_if_idle is called.  An id without a task is
\* skipped.  Otherwise the task's waker is taken from waker_cache, created if
\* missing, and the task is polled next.
pop ==
    /\ ~kpanic
    /\ epc = "pop"
    /\ IF task_queue = <<>>
         THEN /\ epc' = "disable"
              /\ UNCHANGED <<task_queue, task_id, waker_cache, skipped>>
         ELSE /\ task_queue' = Tail(task_queue)
              /\ task_id' = Head(task_queue)
              /\ IF get_mut(Head(task_queue))
                   THEN /\ waker_cache' = waker_cache \cup {Head(task_queue)}
                        /\ epc' = "poll"
                        /\ UNCHANGED skipped
                   ELSE /\ skipped' = skipped \cup {Head(task_queue)}
                        /\ UNCHANGED <<waker_cache, epc>>
    /\ UNCHANGED <<tasks, registered, irq_pending, done, interrupts_enabled, irqs,
                   kpanic, execFrame>>

\* task.poll(&mut context): the task returns Ready or Pending, and may have
\* handed a clone of its waker to an interrupt source.  On Ready the task
\* and its cached waker are removed.
task_poll ==
    /\ ~kpanic
    /\ epc = "poll"
    /\ \E ready \in BOOLEAN, clone \in BOOLEAN :
         /\ registered' = IF clone THEN registered \cup {task_id} ELSE registered
         /\ IF ready
              THEN /\ tasks' = tasks \ {task_id}
                   /\ waker_cache' = waker_cache \ {task_id}
                   /\ done' = done \cup {task_id}
              ELSE UNCHANGED <<tasks, waker_cache, done>>
    /\ epc' = "pop"
    /\ UNCHANGED <<task_id, irq_pending, skipped, interrupts_enabled, task_queue, irqs,
                   kpanic, execFrame>>

\* sleep_if_idle: interrupts::disable().
sleep_if_idle ==
    /\ ~kpanic
    /\ epc = "disable"
    /\ interrupts_enabled' = interrupts_disable(interrupts_enabled)
    /\ epc' = "check"
    /\ UNCHANGED <<tasks, waker_cache, task_id, registered, irq_pending, done, skipped,
                   task_queue, irqs, kpanic, execFrame>>

\* sleep_if_idle: self.task_queue.is_empty().
is_empty ==
    /\ ~kpanic
    /\ epc = "check"
    /\ epc' = IF task_queue = <<>> THEN "hlt" ELSE "enable"
    /\ UNCHANGED <<tasks, waker_cache, task_id, registered, irq_pending, done, skipped,
                   interrupts_enabled, task_queue, irqs, kpanic, execFrame>>

\* sleep_if_idle: enable_interrupts_and_hlt() (sti; hlt: no interrupt is
\* taken between the two) on an empty queue, interrupts::enable() and back to
\* the loop otherwise.
enable ==
    /\ ~kpanic
    /\ epc \in {"hlt", "enable"}
    /\ interrupts_enabled' = TRUE
    /\ epc' = IF epc = "hlt" THEN "halted" ELSE "pop"
    /\ UNCHANGED <<tasks, waker_cache, task_id, registered, irq_pending, done, skipped,
                   task_queue, irqs, kpanic, execFrame>>

\* A device raises an interrupt; it stays pending until the CPU takes it.
irq_raise ==
    /\ ~kpanic
    /\ epc # "main"
    /\ irqs < MaxIrqs
    /\ ~irq_pending
    /\ irq_pending' = TRUE
    /\ irqs' = irqs + 1
    /\ UNCHANGED <<tasks, waker_cache, epc, task_id, registered, done, skipped,
                   interrupts_enabled, task_queue, kpanic, execFrame>>

\* The CPU takes the interrupt, which ends a hlt.  The handler wakes one of
\* the wakers it holds, or none: wake_task pushes the task id and panics on a
\* full queue.  The interrupted code continues after the handler.
wake_task(id) ==
    /\ ~kpanic
    /\ irq_pending
    /\ interrupts_enabled
    /\ irq_pending' = FALSE
    /\ IF id = -1 THEN UNCHANGED <<task_queue, kpanic>>
       ELSE IF Len(task_queue) = TaskQueueCap
         THEN kpanic' = TRUE /\ UNCHANGED task_queue
         ELSE task_queue' = Append(task_queue, id) /\ UNCHANGED kpanic
    /\ epc' = IF epc = "halted" THEN "pop" ELSE epc
    /\ UNCHANGED <<tasks, waker_cache, task_id, registered, done, skipped,
                   interrupts_enabled, irqs, execFrame>>

\* main() has created the executor; interrupts are enabled since init().
ExecInit ==
    /\ \E h \in UninitHeaps : init(h[1], h[2])
    /\ NoCalls
    /\ BootIdle
    /\ LockIdle
    /\ LinkedListIdle
    /\ FsbIdle
    /\ VgaIdle
    /\ writer_lock = "none"
    /\ saved_if = <<>>
    /\ scancode_queue = Uninit
    /\ waker = "none"
    /\ strong_count = 0
    /\ executor = "executor"
    /\ kbd_pc = <<>>
    /\ irq_heap_calls = 0
    /\ paths = {}
    /\ accepted = <<>>
    /\ yielded = <<>>
    /\ woken = FALSE
    /\ interrupts_enabled = TRUE
    /\ task_queue = <<>>
    /\ irqs = 0
    /\ kpanic = FALSE
    /\ tasks = {}
    /\ waker_cache = {}
    /\ epc = "main"
    /\ task_id = -1
    /\ registered = {}
    /\ irq_pending = FALSE
    /\ done = {}
    /\ skipped = {}
    /\ NEXT_ID = 0
    /\ polls_left = <<>>

\* The steps of the executor itself.
ExecSteps == spawn \/ run \/ pop \/ task_poll \/ sleep_if_idle \/ is_empty \/ enable

\* Tasks are created and spawned before the executor runs.
SpawnSpec == ExecInit /\ [][task_new \/ spawn]_vars

\* The CPU keeps executing, and takes a pending interrupt when the flag
\* allows it.
ExecSpec ==
    /\ ExecInit
    /\ [][\/ ExecSteps
          \/ irq_raise
          \/ \E id \in registered \cup {-1} : wake_task(id)]_vars
    /\ WF_vars(ExecSteps)
    /\ WF_vars(\E id \in registered \cup {-1} : wake_task(id))

\* ---------------------------------------------------------- SimpleExecutor

\* A task becomes Ready at one of its first MaxPolls polls, or never.
MaxPolls == 2

\* The future never returns Poll::Ready.
Never == -1

simpleFrame == <<taskFrame, waker_cache, registered, irq_pending, skipped,
                 interrupts_enabled, irqs, kpanic>>

\* A task put back in front of the others.
push_front_task(queue, task) == <<task>> \o queue

\* VecDeque::push_back.
push_back_task(queue, task) == Append(queue, task)

\* SimpleExecutor::spawn(Task::new(..)): the task joins the back of the queue.
simple_spawn ==
    /\ epc = "main"
    /\ Cardinality(tasks) < MaxTasks
    /\ \E n \in (1..MaxPolls) \cup {Never} :
         polls_left' = [id \in tasks \cup {NEXT_ID} |->
                          IF id = NEXT_ID THEN n ELSE polls_left[id]]
    /\ NEXT_ID' = fetch_add(NEXT_ID)
    /\ tasks' = tasks \cup {NEXT_ID}
    /\ task_queue' = push_back_task(task_queue, NEXT_ID)
    /\ UNCHANGED <<epc, task_id, done, simpleFrame>>

\* SimpleExecutor::run is called.
simple_run ==
    /\ epc = "main"
    /\ epc' = "pop_front"
    /\ UNCHANGED <<tasks, task_queue, task_id, done, NEXT_ID, polls_left, simpleFrame>>

\* while let Some(mut task) = self.task_queue.pop_front(): an empty queue
\* ends the loop and run returns.
pop_front ==
    /\ epc = "pop_front"
    /\ IF task_queue = <<>>
         THEN /\ epc' = "returned"
              /\ UNCHANGED <<task_queue, task_id>>
         ELSE /\ task_id' = Head(task_queue)
              /\ task_queue' = Tail(task_queue)
              /\ epc' = "poll"
    /\ UNCHANGED <<tasks, done, NEXT_ID, polls_left, simpleFrame>>

\* task.poll(&mut context) with the dummy waker: Ready drops the task,
\* Pending pushes it back.
simple_poll ==
    /\ epc = "poll"
    /\ IF polls_left[task_id] = 1
         THEN /\ done' = done \cup {task_id}
              /\ UNCHANGED <<task_queue, polls_left>>
         ELSE /\ task_queue' = push_back_task(task_queue, task_id)
              /\ polls_left' = [polls_left EXCEPT ![task_id] =
                                  IF @ = Never THEN Never ELSE @ - 1]
              /\ UNCHANGED done
    /\ epc' = "pop_front"
    /\ UNCHANGED <<tasks, task_id, NEXT_ID, simpleFrame>>

\* main() has created the SimpleExecutor.
SimpleInit ==
    /\ \E h \in UninitHeaps : init(h[1], h[2])
    /\ NoCalls
    /\ BootIdle
    /\ LockIdle
    /\ LinkedListIdle
    /\ FsbIdle
    /\ VgaIdle
    /\ writer_lock = "none"
    /\ saved_if = <<>>
    /\ scancode_queue = Uninit
    /\ waker = "none"
    /\ strong_count = 0
    /\ executor = "simple"
    /\ kbd_pc = <<>>
    /\ irq_heap_calls = 0
    /\ paths = {}
    /\ accepted = <<>>
    /\ yielded = <<>>
    /\ woken = FALSE
    /\ interrupts_enabled = TRUE
    /\ task_queue = <<>>
    /\ irqs = 0
    /\ kpanic = FALSE
    /\ tasks = {}
    /\ waker_cache = {}
    /\ epc = "main"
    /\ task_id = -1
    /\ registered = {}
    /\ irq_pending = FALSE
    /\ done = {}
    /\ skipped = {}
    /\ NEXT_ID = 0
    /\ polls_left = <<>>

\* run keeps executing once it is called.
SimpleSpec ==
    /\ SimpleInit
    /\ [][simple_spawn \/ simple_run \/ pop_front \/ simple_poll]_vars
    /\ WF_vars(pop_front \/ simple_poll)

\* ------------------------------------------------------------------ claims

\* The most recent call was an alloc that took the commit path.
AllocCommitted == last.op = "alloc" /\ last.path = "commit"

\* The most recent call was an alloc that returned null and committed nothing.
AllocFailed == last.op = "alloc" /\ last.path \in {"none", "oom"}

\* The most recent call was a dealloc that ran to its end.
DeallocDone == last.op = "dealloc" /\ last.path = "done"

\* Every dealloc so far gave back a live allocation.
WellFormed == stale = 0

\* C1: whenever alloc succeeds, the address p it returns is a multiple of
\* align, p >= heap_start and p + size <= heap_end, after any sequence of
\* alloc and dealloc calls (matching or not).
C1_AllocAlignedInHeap ==
    AllocCommitted =>
        /\ last.ptr # NULL
        /\ last.ptr % last.align = 0
        /\ last.ptr >= heap_start
        /\ last.ptr + last.size <= heap_end

\* An alloc with align 8 succeeded from a cursor that was not a multiple of 8,
\* after a dealloc that matched nothing.
C1_Witness ==
    /\ AllocCommitted
    /\ last.align = 8
    /\ last.size > 0
    /\ last.pre_next % 8 # 0
    /\ stale > 0

Disjoint(a, b) == a.ptr + a.size <= b.ptr \/ b.ptr + b.size <= a.ptr

\* C2: under well-formed use the ranges [p, p+size) of any two live
\* allocations of non-zero size are disjoint.
C2_LiveDisjoint ==
    WellFormed =>
        \A i, j \in 1..Len(live) :
            (i < j /\ live[i].size > 0 /\ live[j].size > 0)
                => Disjoint(live[i], live[j])

\* Two non-empty allocations are live, the older one allocated with align 1
\* above heap_start: an allocation made before it has been given back, and
\* an alloc has been served since.
C2_Witness ==
    /\ WellFormed
    /\ AllocCommitted
    /\ Len(live) = 2
    /\ live[1].size > 0
    /\ live[2].size > 0
    /\ live[1].align = 1
    /\ live[1].ptr > heap_start

\* C3: under well-formed use, once every allocation has been given back (in
\* any order) allocations == 0 and next == heap_start.
C3_QuiescentReset ==
    (WellFormed /\ leaked = 0 /\ live = <<>>) =>
        (allocations = 0 /\ next = heap_start)

\* The dealloc that emptied the heap gave back an allocation that was not the
\* most recent one: at least two allocations, given back out of order.
C3_Witness ==
    /\ WellFormed
    /\ DeallocDone
    /\ live = <<>>
    /\ last.size > 0
    /\ last.ptr + last.size < last.pre_next

\* C4: heap_start <= next <= heap_end in every reachable state.
C4_NextInHeap == heap_start <= next /\ next <= heap_end

\* An alloc has just failed on a full heap after a dealloc that matched nothing.
C4_Witness ==
    /\ AllocFailed
    /\ next = heap_end
    /\ stale > 0

\* C5: under well-formed use allocations equals the number of live
\* allocations, and a failed alloc leaves allocations as it was.
C5_CountIsLive ==
    /\ (WellFormed /\ leaked = 0) => allocations = Len(live)
    /\ AllocFailed => allocations = last.pre_count

\* An alloc has just failed while one allocation is live.
C5_Witness ==
    /\ WellFormed
    /\ AllocFailed
    /\ Len(live) = 1
    /\ last.pre_count = 1

\* C6: a dealloc that brings allocations to zero sets next to heap_start;
\* a dealloc that leaves allocations above zero leaves next unchanged.
C6_ResetOnlyAtZero ==
    DeallocDone =>
        /\ allocations = 0 => next = heap_start
        /\ allocations # 0 => next = last.pre_next

\* A dealloc has left one allocation outstanding and the cursor where it was,
\* above heap_start: the freed bytes were not recovered.
C6_Witness ==
    /\ DeallocDone
    /\ allocations = 1
    /\ last.size > 0
    /\ next = last.pre_next
    /\ next > heap_start

\* C7 (as claimed): a dealloc called while allocations is zero is treated as
\* an error and the counter never wraps to the largest word.
C7_DeallocAtZeroIsError ==
    (last.op = "dealloc" /\ last.pre_count = 0) =>
        (last.path = "panic" /\ allocations # USIZE_MAX)

\* C8: with aligned_start the least multiple of align >= next and
\* end = aligned_start + size, alloc fails (null, nothing changed) when
\* end > heap_end, and otherwise returns aligned_start, sets next = end and
\* adds one to allocations (as a machine word).
C8_AllocResult ==
    last.op = "alloc" =>
        LET aligned_start == RoundUp(last.pre_next, last.align)
            end == aligned_start + last.size
        IN  IF end > heap_end
              THEN /\ AllocFailed
                   /\ last.ptr = NULL
                   /\ next = last.pre_next
                   /\ allocations = last.pre_count
              ELSE /\ AllocCommitted
                   /\ last.ptr = aligned_start
                   /\ next = end
                   /\ allocations = (last.pre_count + 1) % WORD

\* An alloc that needed padding succeeded and filled the heap exactly.
C8_Witness ==
    /\ AllocCommitted
    /\ last.ptr > last.pre_next
    /\ last.size > 0
    /\ next = heap_end

\* C9 (as claimed): when rounding next up to align, or adding size, leaves
\* the word, alloc does not take the success path: it commits nothing and
\* returns no address computed from the wrapped value.
C9_OverflowFails ==
    (last.op = "alloc" /\ last.ovf) => last.path # "commit"

\* C10: on a 4096-byte heap, alloc 100 returns heap_start, the following
\* alloc 4000 fails, the dealloc of the 100-byte allocation brings
\* allocations to 0 and next to heap_start, and the following alloc 4000
\* succeeds.
C10_Scenario ==
    (heap_end - heap_start = 4096) =>
        /\ scen = 1 => (AllocCommitted /\ last.ptr = heap_start)
        /\ scen = 2 => (AllocFailed /\ last.ptr = NULL)
        /\ scen = 3 => (DeallocDone /\ allocations = 0 /\ next = heap_start)
        /\ scen = 4 => (AllocCommitted /\ last.ptr # NULL)

\* The scenario has run to its last call.
C10_Witness ==
    /\ heap_end - heap_start = 4096
    /\ scen = 4
    /\ last.size = 4000

\* C11: an alloc made before init has run returns the null pointer and hands
\* out no region, for every size and alignment: next does not advance and no
\* allocation becomes live.
C11_UninitAllocFails ==
    (last.op = "alloc" /\ init_calls = 0) =>
        /\ last.ptr = NULL
        /\ next = last.pre_next
        /\ live = <<>>

\* An alloc of 8 bytes aligned to 8 made before init found no memory.
C11_Witness ==
    /\ last.op = "alloc"
    /\ init_calls = 0
    /\ last.size = 8
    /\ last.align = 8
    /\ last.path = "oom"

\* C12: during boot init_heap is called at most once and the allocator's init
\* runs at most once; the allocator is Initialized exactly when init has run
\* (there is no way back); and main() runs, and allocates, only after
\* init_heap and init have completed.
C12_InitOnceBeforeMain ==
    /\ init_heap_calls <= 1
    /\ init_calls <= 1
    /\ init_calls = 1 => (init_heap_calls = 1 /\ heap_result = "Ok")
    /\ (kpc = "main" \/ heap_allocs > 0) => (init_calls = 1 /\ heap_result = "Ok")

\* main() has made a heap allocation.
C12_Witness ==
    /\ kpc = "main"
    /\ heap_allocs > 0
    /\ init_calls = 1

\* C13: the allocator's init has run only if every page of [HEAP_START,
\* HEAP_START + HEAP_SIZE), 25 pages, is mapped PRESENT | WRITABLE to a frame
\* handed out by the frame allocator, each page to a frame of its own.
C13_InitAfterAllMapped ==
    init_calls >= 1 =>
        /\ Cardinality(HeapPages) = 25
        /\ HeapPages \subseteq DOMAIN page_table
        /\ \A p \in HeapPages :
              /\ page_table[p].flags = {"PRESENT", "WRITABLE"}
              /\ page_table[p].frame \in 0..(frame_next - 1)
              /\ page_table[p].frame < memory_map
        /\ \A p, q \in HeapPages :
              page_table[p].frame = page_table[q].frame => p = q

\* init has run after page tables had to be created for the first page.
C13_Witness ==
    /\ init_calls = 1
    /\ frame_next = 28
    /\ Cardinality(DOMAIN page_table) = 25

\* C14: when init_heap has returned an error, it stopped at the page that
\* failed (no later page is mapped), the allocator's init has not run, and
\* kernel_main panics and halts without running main().
C14_FailureStopsBoot ==
    heap_result \notin {"running", "Ok"} =>
        /\ init_calls = 0
        /\ kpc \in {"expect", "panic", "hlt_loop"}
        /\ heap_allocs = 0
        /\ page \in HeapPages
        /\ \A q \in HeapPages : (q \in DOMAIN page_table /\ q >= page) =>
                                   page_table[q].frame = BootFrame

\* The frame allocator ran out at a page in the middle of the range and the
\* kernel halted.
C14_Witness ==
    /\ heap_result = "FrameAllocationFailed"
    /\ kpc = "hlt_loop"
    /\ page > page_range.start
    /\ page < page_range.end

\* C15: the lock serializes the allocator.  At most one context is between
\* taking the lock and releasing it, that context is the holder, and when a
\* call has done its work the allocator is in the state that the call, applied
\* in one step to the state found when the lock was taken, leaves behind: the
\* calls take effect one at a time, in the order they took the lock.
C15_Serialized ==
    /\ Cardinality({c \in DOMAIN cpc : cpc[c] \in Critical}) <= 1
    /\ \A c \in DOMAIN cpc :
          /\ cpc[c] \in Critical => holder = c
          /\ (cpc[c] = "unlock" /\ ~panicked) =>
                /\ next = expected[c].next
                /\ allocations = expected[c].allocations

\* One context has finished a committed alloc and still holds the lock while
\* the other context is spinning for it.
C15_Witness ==
    /\ ~preemptive
    /\ cpc = [c \in Ctx |-> IF c = "task" THEN "unlock" ELSE "lock"]
    /\ call["task"].op = "alloc"
    /\ call["task"].path = "commit"
    /\ allocations = 2

\* The interrupt handler spins for the lock that the context it interrupted holds.
Deadlocked ==
    /\ preemptive
    /\ "irq" \in DOMAIN cpc
    /\ cpc["irq"] = "lock"
    /\ holder = "task"

\* C16: once an interrupt handler spins for the lock held by the context it
\* interrupted, nothing changes any more: the handler keeps spinning, the
\* holder never runs and never releases the lock.
C16_SpinsForever == [][Deadlocked => Deadlocked']_vars

\* The handler interrupted a dealloc between its two writes and spins.
C16_Witness ==
    /\ Deadlocked
    /\ cpc["task"] = "write2"
    /\ call["task"].op = "dealloc"
    /\ call["irq"].op = "alloc"

\* C17 as stated: a dealloc whose arguments are those of no live allocation
\* (never allocated, or already freed) is accepted and raises no error.
C17_InvalidFreeAccepted ==
    (last.op = "dealloc" /\ ~last.matched) => last.path = "done"

\* C17, amended: dealloc looks at neither ptr nor layout.  What it does is
\* fixed by the allocator's state alone, so an invalid free does what a valid
\* free does in the same state: with allocations > 0, or in a build without
\* overflow checks, the counter is decremented (modulo 2^USIZE_BITS), next is
\* reset exactly when the counter becomes 0, and no error is raised; with
\* allocations = 0 in a build with overflow checks the decrement panics.
C17_ArgsIgnored ==
    last.op = "dealloc" =>
        IF last.pre_count = 0 /\ overflow_checks
          THEN /\ last.path = "panic"
               /\ allocations = last.pre_count
               /\ next = last.pre_next
          ELSE /\ last.path = "done"
               /\ allocations = (last.pre_count - 1 + WORD) % WORD
               /\ next = IF allocations = 0 THEN heap_start ELSE last.pre_next

\* A double free: the second dealloc of an 8-byte allocation, made while
\* another allocation is outstanding, was accepted.
C17_Witness ==
    /\ last.op = "dealloc"
    /\ ~last.matched
    /\ last.size = 8
    /\ last.path = "done"
    /\ last.pre_count = 1
    /\ allocations = 0
    /\ Len(live) = 1

\* C18: add_scancode, running in the keyboard interrupt handler, never waits
\* for the screen lock while the interrupted task holds it and never enters
\* the heap allocator, on each of its paths: queue uninitialized, queue full,
\* scancode pushed and waker woken.
C18_ProducerNeverBlocks ==
    /\ irq_heap_calls = 0
    /\ \A c \in DOMAIN kbd_pc :
          (c = "irq" /\ kbd_pc[c] = "lock_writer") => writer_lock = "none"

\* The handler has taken all three paths, woke a TaskWaker, and is returning.
C18_Witness ==
    /\ paths = {"uninitialized", "full", "pushed"}
    /\ executor = "executor"
    /\ task_queue > 0
    /\ kbd_pc["irq"] = "iret"

\* C19: linked-list allocator.  When alloc(s, a) succeeds on a heap that is
\* one free region with nothing allocated, and that allocation is given back,
\* and alloc(s, a) is called again, the second alloc returns the address the
\* first one returned.
C19_RoundTrip == ll_trip.stage = 3 => ll_trip.ptr2 = ll_trip.ptr

\* The round trip was made with a request of 16 bytes aligned to 32 on the
\* heap that does not start at a 32-byte boundary, where the first alloc left
\* a leading gap and a remainder on the free list.
C19_Witness ==
    /\ ll_trip = [stage |-> 3, ptr |-> 4128, size |-> 16, align |-> 32, ptr2 |-> 4128]
    /\ ll_heap.start = 4112
    /\ Len(free_list) = 2

\* C20: linked-list allocator.  An alloc whose size is larger than every free
\* region fails, whatever the free regions add up to and whether or not they
\* are adjacent.
C20_NoCoalescing ==
    (/\ ll_last.op = "alloc"
     /\ \A i \in 1..Len(pre_free) : pre_free[i].size < ll_last.size)
    => /\ ll_last.ptr = NULL
       /\ free_list = pre_free

\* An alloc of 40 bytes failed while two adjacent free regions of 16 bytes
\* and the 32 bytes behind them, 64 bytes in all, were free.
C20_Witness ==
    /\ ll_last.op = "alloc"
    /\ ll_last.size = 40
    /\ ll_last.ptr = NULL
    /\ Len(free_list) = 3
    /\ \E i, j \in 1..Len(free_list) :
          /\ free_list[i].size = 16
          /\ free_list[j].size = 16
          /\ free_list[i].start + 16 = free_list[j].start
    /\ ll_live = <<>>

\* C21: linked-list allocator on a 64-byte heap at base.  From the fresh
\* heap, alloc 16 returns base, the following alloc 16 returns base + 16,
\* and after the first allocation is given back the following alloc 8
\* returns base.
C21_Scenario ==
    (ll_heap.size = 64 /\ ll_scen.stage \in 1..4) =>
        /\ ll_scen.ptrs[1] = ll_heap.start
        /\ ll_scen.stage >= 2 => ll_scen.ptrs[2] = ll_heap.start + 16
        /\ ll_scen.stage = 4 => ll_scen.ptrs[3] = ll_heap.start

\* The scenario has run to its last call: the 8 bytes lie in the region of
\* the first allocation, and the second allocation is still live.
C21_Witness ==
    /\ ll_heap = [start |-> 8208, size |-> 64]
    /\ ll_scen = [stage |-> 4, ptrs |-> <<8208, 8224, 8208>>]
    /\ ll_last = [op |-> "alloc", ptr |-> 8208, size |-> 8, align |-> 8]
    /\ Len(ll_live) = 2

\* [a.start, a.start + a.size) and [b.start, b.start + b.size) share no byte.
Apart(a, b) == a.start + a.size <= b.start \/ b.start + b.size <= a.start

\* C22: linked-list allocator, deallocs of live allocations with their own
\* layout only.  The regions on the free list are pairwise non-overlapping,
\* each lies inside the heap, and none overlaps a live allocation.
C22_FreeRegionsApart ==
    /\ \A i, j \in 1..Len(free_list) : i # j => Apart(free_list[i], free_list[j])
    /\ \A i \in 1..Len(free_list) :
          /\ free_list[i].size > 0
          /\ ll_heap.start <= free_list[i].start
          /\ free_list[i].start + free_list[i].size <= ll_heap.start + ll_heap.size
    /\ \A i \in 1..Len(free_list), k \in 1..Len(ll_live) :
          Apart(free_list[i], [start |-> ll_live[k].ptr, size |-> ll_live[k].size])

\* Three free regions next to a live allocation: on the heap that starts 16
\* bytes above a 32-byte boundary, 16 bytes aligned to 32 are live between
\* the leading gap and the remainder, and a freed 16-byte region follows.
C22_Witness ==
    /\ ll_heap.start = 4112
    /\ Len(free_list) = 3
    /\ Len(ll_live) = 1
    /\ ll_live[1].ptr = 4128
    /\ \E i \in 1..3 : free_list[i] = [start |-> 4112, size |-> 16]
    /\ \E i \in 1..3 : free_list[i].start = 4144

\* C23: linked-list allocator.  After a dealloc the free list is the freed
\* region followed by the list as it was, node for node (nothing merged).
\* An alloc returns the aligned start of the first node, in the order of the
\* list before the call, that fits the request, whichever sizes the later
\* nodes have, and fails only if no node fits; so a request that fits the
\* region freed last, at the head of the list, reuses that region.
C23_FrontAndFirstFit ==
    /\ ll_last.op = "dealloc" =>
          free_list = <<[start |-> ll_last.ptr, size |-> ll_last.size]>> \o pre_free
    /\ ll_last.op = "alloc" =>
          LET hits == {i \in 1..Len(pre_free) :
                          RoundUp(pre_free[i].start, ll_last.align) + ll_last.size
                              <= pre_free[i].start + pre_free[i].size}
          IN  /\ hits = {} => ll_last.ptr = NULL
              /\ \A i \in hits :
                    (\A j \in hits : i <= j)
                    => ll_last.ptr = RoundUp(pre_free[i].start, ll_last.align)

\* A 40-byte and then a 16-byte region were freed next to each other, the
\* 40-byte one last; alloc 16 took the 40-byte region at the head of the list
\* although the 16-byte region behind it fits exactly.
C23_Witness ==
    /\ ll_last = [op |-> "alloc", ptr |-> 4096, size |-> 16, align |-> 1]
    /\ pre_free = <<[start |-> 4096, size |-> 40], [start |-> 4136, size |-> 16]>>
    /\ free_list[Len(free_list)] = [start |-> 4136, size |-> 16]

\* C24: fixed-size-block allocator.  Allocs of 3 and of 8 bytes with the same
\* alignment select the same class, the smallest one for alignments up to its
\* size.  When a block of 8 bytes is given back and the next call is an alloc
\* of 5 bytes, that alloc returns the block just freed and does not call the
\* fallback allocator.
C24_SmallestClassReuse ==
    /\ (/\ fsb_last.op = "alloc"
         /\ fsb_last.size \in {3, 8}
         /\ fsb_last.align <= BLOCK_SIZES[1])
        => fsb_last.class = 1
    /\ (/\ fsb_last.op = "alloc"
         /\ fsb_prev.op = "alloc"
         /\ {fsb_last.size, fsb_prev.size} = {3, 8}
         /\ fsb_last.align = fsb_prev.align)
        => fsb_last.class = fsb_prev.class
    /\ (/\ fsb_last.op = "alloc"
         /\ fsb_last.size = 5
         /\ fsb_prev.op = "dealloc"
         /\ fsb_prev.size = 8
         /\ fsb_last.align = fsb_prev.align)
        => /\ fsb_last.ptr = fsb_prev.ptr
           /\ ~fsb_last.fallback

\* Blocks for 3 and for 8 bytes were carved, the 8-byte block was given
\* back, and the alloc of 5 bytes that followed got it while the 3-byte
\* block is still live.
C24_Witness ==
    /\ fsb_prev = [op |-> "dealloc", ptr |-> 4104, size |-> 8, align |-> 1,
                    class |-> 1, from |-> 1, fallback |-> FALSE]
    /\ fsb_last = [op |-> "alloc", ptr |-> 4104, size |-> 5, align |-> 1,
                    class |-> 1, from |-> 1, fallback |-> FALSE]
    /\ fsb_live[1] = [ptr |-> 4096, size |-> 3, align |-> 1, class |-> 1]
    /\ list_heads[1] = <<>>

\* C25: fixed-size-block allocator.  A call, alloc or dealloc, whose size
\* exceeds the largest class is forwarded to the fallback allocator with its
\* own size and alignment and leaves every class free list as it was.
C25_OversizeToFallback ==
    [][fsb_last'.size > BLOCK_SIZES[Len(BLOCK_SIZES)] =>
          /\ list_heads' = list_heads
          /\ fsb_last'.fallback
          /\ fsb_last'.class = 0
          /\ ll_last' = [op |-> fsb_last'.op, ptr |-> fsb_last'.ptr,
                          size |-> fsb_last'.size, align |-> fsb_last'.align]]_vars

\* A 40-byte allocation was given back to the fallback allocator while a
\* block was on the free list of the smallest class.
C25_Witness ==
    /\ fsb_last.op = "dealloc"
    /\ fsb_last.size = 40
    /\ fsb_last.fallback
    /\ Len(list_heads[1]) = 1
    /\ free_list[1].size = 40

\* C26: fixed-size-block allocator, deallocs with the size and alignment of
\* the alloc.  The class of every call is the smallest class whose size is
\* >= size and a multiple of align (none if there is no such class); a
\* dealloc selects the class the alloc of the block selected; and every
\* block on the free list of class k was carved from the fallback allocator
\* with exactly the size of class k, is on no other list and is not live.
C26_ClassPreserved ==
    /\ fsb_last.op # "init" =>
          LET ok == {k \in 1..Len(BLOCK_SIZES) :
                        /\ BLOCK_SIZES[k] >= fsb_last.size
                        /\ BLOCK_SIZES[k] % fsb_last.align = 0}
          IN  /\ ok = {} => fsb_last.class = 0
              /\ \A k \in ok : (\A j \in ok : k <= j) => fsb_last.class = k
    /\ fsb_last.op = "dealloc" => fsb_last.class = fsb_last.from
    /\ \A k \in 1..Len(list_heads) : \A n \in 1..Len(list_heads[k]) :
          /\ \E j \in 1..Len(ll_live) :
                /\ ll_live[j].ptr = list_heads[k][n]
                /\ ll_live[j].size = BLOCK_SIZES[k]
          /\ \A k2 \in 1..Len(list_heads) : \A n2 \in 1..Len(list_heads[k2]) :
                list_heads[k][n] = list_heads[k2][n2] => (k = k2 /\ n = n2)
          /\ \A i \in 1..Len(fsb_live) : fsb_live[i].ptr # list_heads[k][n]

\* A block of 8 bytes and a block of 16 bytes, the second one carved for a
\* request of 3 bytes aligned to 16, are both back on the lists of their
\* classes.
C26_Witness ==
    /\ Len(list_heads[1]) = 1
    /\ Len(list_heads[2]) = 1
    /\ fsb_last = [op |-> "dealloc", ptr |-> list_heads[2][1], size |-> 3,
                    align |-> 16, class |-> 2, from |-> 2, fallback |-> FALSE]
    /\ fsb_live = <<>>

\* C27: VGA writer.  After a newline, a string s of printable ASCII bytes
\* that is at most BUFFER_WIDTH long, and another newline have been written,
\* row BUFFER_HEIGHT - 2 holds s[i] in column i for every i < len(s),
\* whatever the screen held and wherever the cursor was before.
C27_LineOnScreen ==
    (vga_done = 3 /\ \A i \in 1..Len(vga_text) : vga_text[i] \in 32..126)
    => \A i \in 1..Len(vga_text) : buffer[BUFFER_HEIGHT - 1][i] = vga_text[i]

\* A string that fills the whole line was written; the row above the line
\* still shows what the last row held before the test.
C27_Witness ==
    /\ vga_done = 3
    /\ Len(vga_text) = BUFFER_WIDTH
    /\ \A i \in 1..Len(vga_text) : vga_text[i] \in 32..126
    /\ vga_text[1] # vga_text[BUFFER_WIDTH]
    /\ \A col \in 1..BUFFER_WIDTH : buffer[BUFFER_HEIGHT][col] = 32
    /\ \E row \in 1..(BUFFER_HEIGHT - 2) : buffer[row][1] = 35

\* C28 (as claimed): bump allocator.  In every state, also before init, an
\* alloc that returns the null pointer leaves next and allocations as they
\* were.
C28_FailedAllocCommitsNothing ==
    (last.op = "alloc" /\ last.path # "panic" /\ last.ptr = NULL)
    => /\ next = last.pre_next
       /\ allocations = last.pre_count

\* C29: Executor.  Once a task's poll has returned Ready, the task is not in
\* tasks and has no waker in waker_cache, and it is never polled again: an id
\* of a finished task that is popped from task_queue is skipped.
C29_ReadyNeverPolledAgain ==
    /\ epc = "poll" => task_id \notin done
    /\ \A id \in done : id \notin tasks /\ id \notin waker_cache
    /\ skipped \subseteq done

\* The id of a finished task was popped and skipped, and the other task is
\* being polled.
C29_Witness ==
    /\ skipped = {0}
    /\ done = {0}
    /\ epc = "poll"
    /\ task_id = 1

\* C30: Executor.  The CPU is never halted while task_queue holds an id, and
\* an id of a live task on task_queue leads to a poll of that task (unless
\* the kernel panics on a full queue): a wake that is raised after the
\* emptiness check and before the halt is taken as soon as the halt
\* re-enables interrupts, and ends the halt.
C30_NoLostWakeup ==
    /\ [](epc = "halted" => task_queue = <<>>)
    /\ \A id \in 0..(MaxTasks - 1) :
          (id \in tasks /\ \E n \in 1..Len(task_queue) : task_queue[n] = id)
          ~> ((epc = "poll" /\ task_id = id) \/ kpanic)

\* The queue was found empty, the CPU has not halted yet, and an interrupt
\* of a source that holds a waker is pending.
C30_Witness ==
    /\ epc = "hlt"
    /\ irq_pending
    /\ ~interrupts_enabled
    /\ task_queue = <<>>
    /\ registered # {}
    /\ registered \subseteq tasks


\* poll_next has returned Poll::Pending and the task waits to be polled again.
ReturnedPending == scancode_queue # Uninit /\ kbd_pc["task"] = "idle"

\* C31: the scancode stream loses no wakeup.  Under every interleaving of
\* add_scancode with poll_next, whenever poll_next has returned Pending and
\* the queue holds a scancode, a wake of the waker it registered has happened
\* or is about to happen in the running handler; with the TaskWaker, the
\* wake that happened has put the task's id into task_queue.
C31_NoLostWakeup ==
    /\ (ReturnedPending /\ scancode_queue # <<>>) =>
          (woken \/ kbd_pc["irq"] = "wake")
    /\ (ReturnedPending /\ scancode_queue # <<>> /\ woken /\ executor = "executor") =>
          (task_queue > 0 \/ kpanic)

\* The task is Pending with a TaskWaker, a scancode arrived afterwards, the
\* handler woke the waker and has returned.
C31_Witness ==
    /\ ReturnedPending
    /\ scancode_queue # <<>>
    /\ woken
    /\ executor = "executor"
    /\ task_queue > 0
    /\ kbd_pc["irq"] = "idle"

\* C32: the scancodes add_scancode accepted (pushed while the queue was
\* initialized and not full) are yielded by poll_next in push order, each
\* exactly once: under every interleaving, what was accepted is what was
\* yielded followed by what is still queued.
C32_FifoExactlyOnce ==
    accepted = yielded \o (IF scancode_queue = Uninit THEN <<>> ELSE scancode_queue)

\* Scancodes 1 and 2 were yielded in order, 3 was dropped on a full queue
\* and 4 is queued.
C32_Witness ==
    /\ yielded = <<1, 2>>
    /\ scancode_queue = <<4>>
    /\ accepted = <<1, 2, 4>>

\* add_scancode is about to run on a queue that cannot store the scancode.
CannotStore ==
    /\ kbd_pc["irq"] = "try_get"
    /\ IF scancode_queue = Uninit THEN TRUE ELSE Len(scancode_queue) = ScancodeCap

\* C33: add_scancode drops input it cannot store.  When SCANCODE_QUEUE is
\* uninitialized or already holds its capacity, the new scancode is discarded
\* with a warning (the handler goes on to println!): the queue's contents and
\* order are unchanged and no waker is woken, up to the handler's return.
C33_DropsWhatItCannotStore ==
    [][/\ CannotStore =>
            /\ kbd_pc'["irq"] = "print"
            /\ scancode_queue' = scancode_queue
            /\ accepted' = accepted
            /\ waker' = waker
            /\ task_queue' = task_queue
       /\ kbd_pc["irq"] \in {"print", "lock_writer", "write", "restore"} =>
            /\ scancode_queue' = scancode_queue
            /\ accepted' = accepted
            /\ waker' = waker
            /\ task_queue' = task_queue]_vars

\* The handler has dropped a scancode on the uninitialized queue and one on
\* the full queue, and is returning from the second.
C33_Witness ==
    /\ {"uninitialized", "full"} \subseteq paths
    /\ kbd_pc["irq"] = "iret"
    /\ scancode_queue = <<2, 3>>
    /\ accepted = <<2, 3>>
    /\ irqs = 4

\* C34: Executor::spawn adds the task to the task map and pushes its id onto
\* the task queue exactly once; it panics if a task with the same id is
\* already in the map, and panics if the task queue already holds its
\* capacity of ids.  Before the executor runs, the queue holds exactly the
\* ids of the map, each once.
C34_SpawnOnceOrPanic ==
    [][spawn =>
         /\ tasks' = tasks \cup {NEXT_ID}
         /\ kpanic' = (NEXT_ID \in tasks \/ Len(task_queue) = TaskQueueCap)
         /\ ~kpanic' =>
              /\ task_queue' = Append(task_queue, NEXT_ID)
              /\ \A id \in tasks' :
                   Cardinality({n \in 1..Len(task_queue') : task_queue'[n] = id}) = 1
              /\ \A n \in 1..Len(task_queue') : task_queue'[n] \in tasks']_vars

\* The id counter has wrapped around to the id of the one spawned task, and
\* spawning the task with that id has panicked.
C34_Witness ==
    /\ kpanic
    /\ tasks = {0}
    /\ task_queue = <<0>>
    /\ NEXT_ID = 1
    /\ epc = "main"

\* C35: between iterations of run_ready_tasks, every id that has a waker in
\* waker_cache also has a task in tasks, after any sequence of spawn, wake
\* and run_ready_tasks steps.
C35_CachedWakerHasTask == epc # "poll" => waker_cache \subseteq tasks

\* One task is done and its late wake-up was skipped, the other task still
\* has its cached waker; the loop is between two iterations.
C35_Witness ==
    /\ epc = "pop"
    /\ done # {}
    /\ skipped # {}
    /\ waker_cache # {}
    /\ waker_cache = tasks

\* C36: SimpleExecutor::run polls tasks in round-robin FIFO order: the task
\* polled is the front of the queue, a task whose poll returns Pending is
\* re-queued at the back, a task whose poll returns Ready is dropped and
\* never polled again, and run returns exactly when every spawned task has
\* returned Ready: it returns if every task becomes Ready after finitely
\* many polls, and never returns otherwise.
C36_RoundRobinUntilAllReady ==
    /\ [][/\ (epc = "pop_front" /\ task_queue # <<>>) =>
               (task_id' = Head(task_queue) /\ task_queue' = Tail(task_queue))
          /\ (epc = "poll" /\ polls_left[task_id] # 1) =>
               (task_queue' = Append(task_queue, task_id) /\ done' = done)
          /\ (epc = "poll" /\ polls_left[task_id] = 1) =>
               (task_queue' = task_queue /\ task_id \in done')]_vars
    /\ [](epc = "poll" => task_id \notin done)
    /\ [](\A n \in 1..Len(task_queue) : task_queue[n] \notin done)
    /\ [](epc = "returned" => done = tasks)
    /\ []((\E id \in tasks : polls_left[id] = Never) => epc # "returned")
    /\ (epc = "pop_front" /\ \A id \in tasks : polls_left[id] # Never) ~> (epc = "returned")

\* Two tasks were spawned and polled until both had returned Ready; run has
\* returned.
C36_Witness ==
    /\ epc = "returned"
    /\ tasks = {0, 1}
    /\ done = tasks
    /\ executor = "simple"

\* What a call of write_byte, write_string, backspace or clear_screen on the
\* writer as it is would leave.
AfterAnyCall ==
    {write_byte(WRITER_GLOBAL, byte) : byte \in {65, 10}}
      \cup {write_string(WRITER_GLOBAL, s) : s \in WriterStrings}
      \cup {backspace(WRITER_GLOBAL), clear_screen(WRITER_GLOBAL)}

\* C37: VGA writer.  After any sequence of write_byte, write_string,
\* backspace and clear_screen calls, also one that prints more lines than
\* the screen has rows, column_position <= BUFFER_WIDTH between calls, every
\* cell a call reads or writes has row < BUFFER_HEIGHT and col <
\* BUFFER_WIDTH, and the column_position - 1 of backspace does not underflow.
C37_WriterStaysOnScreen ==
    /\ column_position <= BUFFER_WIDTH
    /\ \A w \in AfterAnyCall :
         /\ w.column_position <= BUFFER_WIDTH
         /\ \A c \in w.cells : c[1] < BUFFER_HEIGHT /\ c[2] < BUFFER_WIDTH
         /\ ~w.underflow

\* On a screen full of text, a backspace at column 0 has deleted the line:
\* the rows moved down, row 1 was cleared and the cursor is on the last
\* column of the last row, which was blanked.
C37_Witness ==
    /\ column_position = BUFFER_WIDTH - 1
    /\ buffer[1] = [col \in 1..BUFFER_WIDTH |-> 65]
    /\ buffer[2] = [col \in 1..BUFFER_WIDTH |-> 32]
    /\ buffer[BUFFER_HEIGHT] =
         [col \in 1..BUFFER_WIDTH |-> IF col = BUFFER_WIDTH THEN 32 ELSE 65]
    /\ backspace(WRITER_GLOBAL).column_position = BUFFER_WIDTH - 2

\* C38: screen output cannot deadlock against interrupts.  WRITER_GLOBAL is
\* held only while interrupts are disabled, on every path that locks it
\* (_print, readln, _clear_screen, _backspace: lock inside
\* without_interrupts), so an interrupt handler that prints never finds the
\* lock held by the context it interrupted.
C38_LockHeldWithInterruptsOff ==
    /\ writer_lock # "none" => ~interrupts_enabled
    /\ kbd_pc["irq"] # "idle" => writer_lock # "task"

\* The handler interrupted the task just before the task's print and is
\* itself printing, with the lock.
C38_Witness ==
    /\ kbd_pc["task"] = "print"
    /\ kbd_pc["irq"] = "write"
    /\ writer_lock = "irq"
    /\ ~interrupts_enabled

\* The frames inside a region of type Usable.
UsableSet ==
    {f \in 0..(3 * (MaxRegionFrames + 1)) :
       \E n \in 1..Len(memory_regions) :
         /\ memory_regions[n].region_type = "Usable"
         /\ memory_regions[n].start_frame_number <= f
         /\ f < memory_regions[n].end_frame_number}

\* The position in the memory map of the region holding frame f.
RegionOf(f) ==
    CHOOSE n \in 1..Len(memory_regions) :
      /\ memory_regions[n].start_frame_number <= f
      /\ f < memory_regions[n].end_frame_number

\* Frame f comes before frame g in the memory map's order.
Before(f, g) ==
    \/ RegionOf(f) < RegionOf(g)
    \/ RegionOf(f) = RegionOf(g) /\ f < g

\* C39: BootInfoFrameAllocator.  The k-th call of allocate_frame returns the
\* k-th 4 KiB frame of the Usable regions of the memory map, in the map's
\* order: a frame of a Usable region with exactly k - 1 usable frames before
\* it, so no frame is returned twice and none outside a Usable region; when
\* the usable frames are used up the call returns None, and so does every
\* later call.
C39_KthUsableFrame ==
    /\ frame_next = Len(frames)
    /\ \A k \in 1..Len(frames) :
         IF k <= Cardinality(UsableSet)
           THEN /\ frames[k] \in UsableSet
                /\ Cardinality({g \in UsableSet : Before(g, frames[k])}) = k - 1
           ELSE frames[k] = NoFrame

\* The first region, higher in memory than the second and usable, gave the
\* first frame; the second region, reserved, gave none; the third gave the
\* second frame; the two calls after that returned None.
C39_Witness ==
    /\ Len(frames) = 4
    /\ memory_regions[2].region_type = "Reserved"
    /\ memory_regions[2].end_frame_number > memory_regions[2].start_frame_number
    /\ frames[1] \in UsableSet /\ RegionOf(frames[1]) = 1
    /\ frames[2] \in UsableSet /\ RegionOf(frames[2]) = 3
    /\ frames[1] > frames[2]
    /\ frames[3] = NoFrame
    /\ frames[4] = NoFrame

====
